---- MODULE Spec2Model ----
(***************************************************************************)
(* A model of the mini-react reconciler: the fiber heap (ReactFiber.ts),   *)
(* the root handle (ReactFiberRoot.ts), the update queue                   *)
(* (ReactUpdateQueue.ts), the synchronous work loop and the commit phase   *)
(* (ReactFiberWorkLoop.ts) and the container entry point                   *)
(* (ReactFiberReconciler.ts).                                              *)
(*                                                                         *)
(* Objects live in heaps that only grow: fibers, updates, queues and DOM   *)
(* nodes are sequences of records and a reference is an index, 0 standing  *)
(* for the null pointer.  JavaScript values are records: a primitive has a *)
(* field "prim", an array a field "arr", and any other record is a plain   *)
(* object whose fields are its own enumerable properties.                  *)
(***************************************************************************)
EXTENDS Integers, Sequences, FiniteSets, TLC

\* ------------------------------------------------------------------------
\* Bounds of the model.
\* ------------------------------------------------------------------------
NumRoots == 1        \* tree pairs created by createContainer
MaxCalls == 3        \* top-level calls of updateContainer / scheduleUpdateOnFiber
MaxEnq == 3          \* direct enqueueUpdate calls in the update-queue specification
MaxNested == 2       \* calls made from component functions during builds
NumPairs == 2        \* tree pairs in the specification of two containers

\* ------------------------------------------------------------------------
\* JavaScript values.
\* ------------------------------------------------------------------------
Null == [prim |-> "null"]
Undefined == [prim |-> "undefined"]
Bool(b) == [prim |-> "boolean", b |-> b]
Num(n) == [prim |-> "number", n |-> n]
Str(s) == [prim |-> "string", s |-> s]
Fn(name) == [prim |-> "function", name |-> name]
Arr(items) == [arr |-> items]
EmptyObj == [k \in {} |-> Null]

IsPrim(v) == "prim" \in DOMAIN v
IsArray(v) == "arr" \in DOMAIN v
IsObj(v) == ~IsPrim(v) /\ ~IsArray(v)

\* typeof v
TypeOf(v) ==
    IF IsPrim(v)
    THEN (IF v.prim = "null" THEN "object" ELSE v.prim)
    ELSE "object"

\* ToBoolean(v)
Truthy(v) ==
    IF ~IsPrim(v) THEN TRUE
    ELSE CASE v.prim = "null" -> FALSE
           [] v.prim = "undefined" -> FALSE
           [] v.prim = "boolean" -> v.b
           [] v.prim = "number" -> v.n # 0
           [] v.prim = "string" -> v.s # ""
           [] OTHER -> TRUE

\* v == null (loose equality: null or undefined)
IsNullish(v) == v = Null \/ v = Undefined

\* v[key] for a value that may be a primitive
Get(v, key) == IF IsObj(v) /\ key \in DOMAIN v THEN v[key] ELSE Undefined

\* key in v
HasKey(v, key) == IsObj(v) /\ key \in DOMAIN v

\* The decimal digits of the numbers the model uses, for String(n).
NumToStr(n) ==
    CASE n = 0 -> "0" [] n = 1 -> "1" [] n = 2 -> "2" [] n = 3 -> "3"
      [] n = 4 -> "4" [] n = 5 -> "5" [] n = 6 -> "6" [] n = 7 -> "7"
      [] n = 8 -> "8" [] n = 9 -> "9" [] n = 10 -> "10" [] n = 11 -> "11"
      [] OTHER -> "12"

\* String(v) for the primitives that reach it
ToStr(v) ==
    IF ~IsPrim(v) THEN "[object Object]"
    ELSE CASE v.prim = "string" -> v.s
           [] v.prim = "number" -> NumToStr(v.n)
           [] v.prim = "boolean" -> (IF v.b THEN "true" ELSE "false")
           [] v.prim = "null" -> "null"
           [] v.prim = "undefined" -> "undefined"
           [] OTHER -> "function"

\* The characters of the string literals of the model.
Chars(s) ==
    CASE s = "Hi" -> <<"H", "i">>
      [] s = "Bye" -> <<"B", "y", "e">>
      [] s = "a" -> <<"a">>
      [] s = "b" -> <<"b">>
      [] s = "x" -> <<"x">>
      [] OTHER -> <<>>

\* The property name of an array index.
IdxKey(i) == NumToStr(i - 1)

\* The own enumerable properties Object.assign copies from a source.
OwnProps(v) ==
    IF IsObj(v) THEN v
    ELSE IF IsArray(v)
    THEN [k \in {IdxKey(i) : i \in 1..Len(v.arr)} |->
             v.arr[CHOOSE i \in 1..Len(v.arr) : IdxKey(i) = k]]
    ELSE IF v.prim = "string"
    THEN [k \in {IdxKey(i) : i \in 1..Len(Chars(v.s))} |->
             Str(Chars(v.s)[CHOOSE i \in 1..Len(Chars(v.s)) : IdxKey(i) = k])]
    ELSE EmptyObj

\* Object.assign({}, a, b)
ObjectAssign(a, b) ==
    LET pa == OwnProps(a)
        pb == OwnProps(b)
    IN  [k \in DOMAIN pa \cup DOMAIN pb |-> IF k \in DOMAIN pb THEN pb[k] ELSE pa[k]]

\* ------------------------------------------------------------------------
\* ReactElement: createElement(type, config, ...children)
\* ------------------------------------------------------------------------
REACT_ELEMENT_TYPE == "react.element"

ReactElement(type, key, props) ==
    [typeof |-> REACT_ELEMENT_TYPE, type |-> type, key |-> key, ref |-> Null,
     props |-> props]

\* createElement(type, null) and createElement(type, null, child): a single
\* child is stored as is, several children as an array.
createElement0(type) == ReactElement(type, Null, EmptyObj)
createElement1(type, child) == ReactElement(type, Null, [children |-> child])
createElementN(type, children) == ReactElement(type, Null, [children |-> Arr(children)])
createElementC(type, cls, child) ==
    ReactElement(type, Null, [className |-> Str(cls), children |-> child])

\* ------------------------------------------------------------------------
\* WorkTag and Flags (ReactFiber.ts)
\* ------------------------------------------------------------------------
FunctionComponent == 0
ClassComponent == 1
HostRoot == 3
HostComponent == 5
HostText == 6

NoFlags == 0
Placement == 2
Update == 4
Deletion == 8

\* (flags & bit) !== 0, for a bit that is a power of two
HasFlag(flags, bit) == (flags \div bit) % 2 = 1
\* flags | bit
OrFlag(flags, bit) == IF HasFlag(flags, bit) THEN flags ELSE flags + bit

\* ------------------------------------------------------------------------
\* The heap.  One record H carries the object heaps through the operators
\* that model a function of the program:
\*   fibers, updates, queues, doms, roots   the objects, by index
\*   err      "none", or the message of the Error thrown and not caught
\*   tick     what an impure component reads from its environment: the
\*            number of top-level calls made so far
\*   mounted  the fibers mountChildFibers created in the build in flight
\*   cloned   the fibers createWorkInProgress returned in the build in flight
\* ------------------------------------------------------------------------

\* A local constant of a function: the value v is computed once and Body is
\* applied to it.
Const(v, Body(_)) == CHOOSE result \in {Body(x) : x \in {v}} : TRUE

\* createFiber(tag, pendingProps, key)
createFiber(tag, pendingProps, key) ==
    [tag |-> tag, key |-> key, elementType |-> Null, type |-> Null,
     stateNode |-> Null, return |-> 0, child |-> 0, sibling |-> 0, index |-> 0,
     ref |-> Null, pendingProps |-> pendingProps, memoizedProps |-> Null,
     updateQueue |-> 0, memoizedState |-> Null, flags |-> NoFlags,
     subtreeFlags |-> NoFlags, nextEffect |-> 0, firstEffect |-> 0,
     lastEffect |-> 0, alternate |-> 0]

\* createHostRootFiber()
createHostRootFiber == createFiber(HostRoot, Null, Null)

\* The component functions and classes the descriptions of the model use.
\* type.prototype && type.prototype.isReactComponent
IsReactComponent(type) == type.name = "Box"

\* The tag createFiberFromElement chooses; -1 when it throws.
ElementTag(type) ==
    IF TypeOf(type) = "string" THEN HostComponent
    ELSE IF TypeOf(type) = "function"
    THEN (IF IsReactComponent(type) THEN ClassComponent ELSE FunctionComponent)
    ELSE -1

\* createFiberFromElement(element), for a type it accepts
createFiberFromElement(element) ==
    [createFiber(ElementTag(Get(element, "type")), Get(element, "props"),
                 Get(element, "key"))
       EXCEPT !.elementType = Get(element, "type"), !.type = Get(element, "type")]

\* createFiberFromText(content)
createFiberFromText(content) == createFiber(HostText, Str(content), Null)

\* The fiber createWorkInProgress(current, _) returns: the alternate, or the
\* fiber it is about to allocate.
WipOf(H, current) ==
    IF H.fibers[current].alternate = 0 THEN Len(H.fibers) + 1
    ELSE H.fibers[current].alternate

\* createWorkInProgress, branch alternate === null: the fibers after a new
\* fiber has been allocated for current and the two have been linked.
cwipAllocate_OneWay(F, current, pendingProps) ==
    LET cur == F[current]
    IN  Append(F, [createFiber(cur.tag, pendingProps, cur.key)
                     EXCEPT !.elementType = cur.elementType, !.type = cur.type,
                            !.stateNode = cur.stateNode, !.alternate = current])

\* The allocation of createWorkInProgress without the copy of type.
cwipAllocate_DropsType(F, current, pendingProps) ==
    LET cur == F[current]
        fresh == [createFiber(cur.tag, pendingProps, cur.key)
                    EXCEPT !.elementType = cur.elementType,
                           !.stateNode = cur.stateNode, !.alternate = current]
    IN  [Append(F, fresh) EXCEPT ![current].alternate = Len(F) + 1]

\* The allocation of createWorkInProgress with the flags of current copied to
\* the new fiber.
cwipAllocate_CopiesFlags(F, current, pendingProps) ==
    LET cur == F[current]
        fresh == [createFiber(cur.tag, pendingProps, cur.key)
                    EXCEPT !.elementType = cur.elementType, !.type = cur.type,
                           !.stateNode = cur.stateNode, !.alternate = current,
                           !.flags = cur.flags]
    IN  [Append(F, fresh) EXCEPT ![current].alternate = Len(F) + 1]

cwipAllocate(F, current, pendingProps) ==
    LET cur == F[current]
        fresh == [createFiber(cur.tag, pendingProps, cur.key)
                    EXCEPT !.elementType = cur.elementType, !.type = cur.type,
                           !.stateNode = cur.stateNode, !.alternate = current]
    IN  [Append(F, fresh) EXCEPT ![current].alternate = Len(F) + 1]

\* createWorkInProgress, branch alternate !== null, without the clearing of
\* the effects of the reused alternate.
cwipRecycle_KeepsEffects(F, current, pendingProps) ==
    LET wip == F[current].alternate
    IN  [F EXCEPT ![wip].pendingProps = pendingProps,
                  ![wip].type = F[current].type]

\* createWorkInProgress, branch alternate !== null: the alternate is reused
\* and its effects are cleared.
cwipRecycle(F, current, pendingProps) ==
    LET wip == F[current].alternate
    IN  [F EXCEPT ![wip].pendingProps = pendingProps,
                  ![wip].type = F[current].type,
                  ![wip].flags = NoFlags,
                  ![wip].subtreeFlags = NoFlags,
                  ![wip].nextEffect = 0,
                  ![wip].firstEffect = 0,
                  ![wip].lastEffect = 0]

\* createWorkInProgress, the properties copied from current in both branches.
cwipCopy_KeepsState(F, current, wip) ==
    [F EXCEPT ![wip].child = F[current].child,
              ![wip].memoizedProps = F[current].memoizedProps,
              ![wip].updateQueue = F[current].updateQueue,
              ![wip].sibling = F[current].sibling,
              ![wip].index = F[current].index,
              ![wip].ref = F[current].ref]

\* The copy of createWorkInProgress without the child pointer.
cwipCopy_DropsChild(F, current, wip) ==
    [F EXCEPT ![wip].memoizedProps = F[current].memoizedProps,
              ![wip].memoizedState = F[current].memoizedState,
              ![wip].updateQueue = F[current].updateQueue,
              ![wip].sibling = F[current].sibling,
              ![wip].index = F[current].index,
              ![wip].ref = F[current].ref]

cwipCopy(F, current, wip) ==
    [F EXCEPT ![wip].child = F[current].child,
              ![wip].memoizedProps = F[current].memoizedProps,
              ![wip].memoizedState = F[current].memoizedState,
              ![wip].updateQueue = F[current].updateQueue,
              ![wip].sibling = F[current].sibling,
              ![wip].index = F[current].index,
              ![wip].ref = F[current].ref]

\* createWorkInProgress(current, pendingProps)
createWorkInProgress(H, current, pendingProps) ==
    LET wip == WipOf(H, current)
        F1 == IF H.fibers[current].alternate = 0
              THEN cwipAllocate(H.fibers, current, pendingProps)
              ELSE cwipRecycle(H.fibers, current, pendingProps)
    IN  [H EXCEPT !.fibers = cwipCopy(F1, current, wip), !.cloned = @ \cup {wip}]

\* ------------------------------------------------------------------------
\* The update queue (ReactUpdateQueue.ts)
\* ------------------------------------------------------------------------

\* createUpdate(), with its payload assigned
createUpdate(payload) == [payload |-> payload, callback |-> Null, next |-> 0]

\* createUpdateQueue(baseState)
createUpdateQueue(baseState) ==
    [baseState |-> baseState, firstBaseUpdate |-> 0, lastBaseUpdate |-> 0,
     shared |-> [pending |-> 0]]

\* enqueueUpdate without its last assignment when the ring is not empty.
enqueueUpdate_KeepsTail(H, fiber, update) ==
    LET updateQueue == H.fibers[fiber].updateQueue
    IN  IF updateQueue = 0
        THEN [H EXCEPT
                !.queues = Append(@, [createUpdateQueue(Null)
                                        EXCEPT !.shared.pending = update]),
                !.fibers[fiber].updateQueue = Len(H.queues) + 1,
                !.updates[update].next = update]
        ELSE LET pending == H.queues[updateQueue].shared.pending
             IN  IF pending = 0
                 THEN [H EXCEPT !.updates[update].next = update,
                                !.queues[updateQueue].shared.pending = update]
                 ELSE [H EXCEPT
                         !.updates = [[@ EXCEPT ![update].next = H.updates[pending].next]
                                         EXCEPT ![pending].next = update]]

\* enqueueUpdate that does not close the ring of a first entry on itself.
enqueueUpdate_OpenRing(H, fiber, update) ==
    LET updateQueue == H.fibers[fiber].updateQueue
    IN  IF updateQueue = 0
        THEN [H EXCEPT
                !.queues = Append(@, [createUpdateQueue(Null)
                                        EXCEPT !.shared.pending = update]),
                !.fibers[fiber].updateQueue = Len(H.queues) + 1]
        ELSE LET pending == H.queues[updateQueue].shared.pending
             IN  [H EXCEPT
                    !.updates = IF pending = 0
                                THEN @
                                ELSE [[@ EXCEPT ![update].next = H.updates[pending].next]
                                         EXCEPT ![pending].next = update],
                    !.queues[updateQueue].shared.pending = update]

\* enqueueUpdate(fiber, update), update being an object already on the heap
enqueueUpdate(H, fiber, update) ==
    LET updateQueue == H.fibers[fiber].updateQueue
    IN  IF updateQueue = 0
        THEN [H EXCEPT
                !.queues = Append(@, [createUpdateQueue(Null)
                                        EXCEPT !.shared.pending = update]),
                !.fibers[fiber].updateQueue = Len(H.queues) + 1,
                !.updates[update].next = update]
        ELSE LET pending == H.queues[updateQueue].shared.pending
             IN  [H EXCEPT
                    !.updates = IF pending = 0
                                THEN [@ EXCEPT ![update].next = update]
                                ELSE [[@ EXCEPT ![update].next = H.updates[pending].next]
                                         EXCEPT ![pending].next = update],
                    !.queues[updateQueue].shared.pending = update]

\* The function payloads of the model: (prevState, props) => newState.
CallPayload(name, state, props) ==
    CASE name = "inc" ->
           [count |-> Num((IF TypeOf(Get(state, "count")) = "number"
                           THEN Get(state, "count").n ELSE 0) + 1)]
      [] name = "double" ->
           ObjectAssign(state,
               [count |-> Num((IF TypeOf(Get(state, "count")) = "number"
                               THEN Get(state, "count").n ELSE 0) * 2)])
      [] name = "props" -> props
      [] OTHER -> state

\* One turn of the fold in processUpdateQueue: the new base state.
ApplyPayload(updatePayload, newBaseState, props) ==
    IF Truthy(updatePayload) /\ TypeOf(updatePayload) = "object"
       /\ Get(updatePayload, "element") # Undefined
    THEN updatePayload.element
    ELSE IF TypeOf(updatePayload) = "function"
    THEN CallPayload(updatePayload.name, newBaseState, props)
    ELSE ObjectAssign(newBaseState, updatePayload)

\* The while loop of processUpdateQueue over the cut list.
RECURSIVE FoldUpdates(_, _, _, _)
FoldUpdates(updates, update, newBaseState, props) ==
    IF update = 0 THEN newBaseState
    ELSE FoldUpdates(updates, updates[update].next,
                     ApplyPayload(updates[update].payload, newBaseState, props),
                     props)

\* The entries of the cut list from update on, in the order of the while loop.
RECURSIVE PendingList(_, _)
PendingList(updates, update) ==
    IF update = 0 THEN <<>>
    ELSE <<update>> \o PendingList(updates, updates[update].next)

\* processUpdateQueue that folds the pending entries and leaves them in the
\* ring.
processUpdateQueue_KeepsRing(H, workInProgress, props) ==
    LET queue == H.fibers[workInProgress].updateQueue
    IN  IF queue = 0 THEN H
        ELSE
        LET pendingQueue == H.queues[queue].shared.pending
            firstPendingUpdate == H.updates[pendingQueue].next
            cut == [H.updates EXCEPT ![pendingQueue].next = 0]
            newBaseState ==
                IF pendingQueue = 0 THEN H.queues[queue].baseState
                ELSE FoldUpdates(cut, firstPendingUpdate,
                                 H.queues[queue].baseState, props)
        IN  [H EXCEPT
               !.queues[queue].baseState = newBaseState,
               !.fibers[workInProgress].memoizedState = newBaseState,
               !.folded = IF pendingQueue = 0 THEN @
                          ELSE @ \o PendingList(cut, firstPendingUpdate)]

\* processUpdateQueue(workInProgress, props, instance)
processUpdateQueue(H, workInProgress, props) ==
    LET queue == H.fibers[workInProgress].updateQueue
    IN  IF queue = 0 THEN H
        ELSE
        LET pendingQueue == H.queues[queue].shared.pending
            firstPendingUpdate == H.updates[pendingQueue].next
            cut == [H.updates EXCEPT ![pendingQueue].next = 0]
            newBaseState ==
                IF pendingQueue = 0 THEN H.queues[queue].baseState
                ELSE FoldUpdates(cut, firstPendingUpdate,
                                 H.queues[queue].baseState, props)
        IN  [H EXCEPT
               !.updates = IF pendingQueue = 0 THEN @ ELSE cut,
               !.queues[queue] = [baseState |-> newBaseState,
                                  firstBaseUpdate |-> 0, lastBaseUpdate |-> 0,
                                  shared |-> [pending |-> 0]],
               !.fibers[workInProgress].memoizedState = newBaseState,
               !.folded = IF pendingQueue = 0 THEN @
                          ELSE @ \o PendingList(cut, firstPendingUpdate)]

\* ------------------------------------------------------------------------
\* The external target: document.createElement, createTextNode, appendChild,
\* removeChild and contains, on a heap of DOM nodes.
\* ------------------------------------------------------------------------

\* Tag names for which document.createElement throws InvalidCharacterError.
InvalidTagNames == {""}

\* A detached node, as document.createElement / createTextNode returns it.
DomElement(tagName) ==
    [nodeType |-> "element", name |-> tagName, data |-> "", className |-> "",
     attrs |-> EmptyObj, style |-> EmptyObj, listeners |-> {},
     children |-> <<>>, parent |-> 0]
DomText(data) == [DomElement("#text") EXCEPT !.nodeType = "text", !.data = data]

\* key.startsWith('on') and key.slice(2).toLowerCase(), for the property
\* names of the model.
StartsWithOn(key) == key \in {"onClick"}
EventName(key) == IF key = "onClick" THEN "click" ELSE key

\* The body of the for-in loop of completeWork for one property.
SetDomProp(dom, key, val) ==
    IF key = "children" THEN dom
    ELSE IF key = "className" /\ TypeOf(val) = "string"
    THEN [dom EXCEPT !.className = val.s]
    ELSE IF key = "style" /\ Truthy(val) /\ TypeOf(val) = "object"
    THEN [dom EXCEPT !.style = ObjectAssign(@, val)]
    ELSE IF StartsWithOn(key) /\ TypeOf(val) = "function"
    THEN [dom EXCEPT !.listeners = @ \cup {EventName(key)}]
    ELSE IF ~IsNullish(val)
    THEN [dom EXCEPT !.attrs = ObjectAssign(@, [k \in {key} |-> Str(ToStr(val))])]
    ELSE dom

RECURSIVE SetDomProps(_, _, _)
SetDomProps(dom, props, keys) ==
    IF keys = {} THEN dom
    ELSE LET key == CHOOSE k \in keys : TRUE
         IN  SetDomProps(SetDomProp(dom, key, props[key]), props, keys \ {key})

\* node.contains(other): other is node or a descendant of node
RECURSIVE DomContains(_, _, _)
DomContains(doms, node, other) ==
    IF other = 0 THEN FALSE
    ELSE IF other = node THEN TRUE
    ELSE DomContains(doms, node, doms[other].parent)

\* The sequence s without its element x.
RECURSIVE SeqWithout(_, _)
SeqWithout(s, x) ==
    IF s = <<>> THEN <<>>
    ELSE IF Head(s) = x THEN SeqWithout(Tail(s), x)
    ELSE <<Head(s)>> \o SeqWithout(Tail(s), x)

\* parent.removeChild(child), child being a child of parent
DomRemoveChild(doms, parent, child) ==
    [doms EXCEPT ![parent].children = SeqWithout(@, child), ![child].parent = 0]

\* parent.appendChild(child): the child leaves its old parent, if any, and
\* becomes the last child of parent.
DomAppendChild(doms, parent, child) ==
    LET detached == IF doms[child].parent = 0 THEN doms
                    ELSE DomRemoveChild(doms, doms[child].parent, child)
    IN  [detached EXCEPT ![parent].children = Append(@, child),
                         ![child].parent = parent]

\* ------------------------------------------------------------------------
\* The work loop (ReactFiberWorkLoop.ts): begin phase
\* ------------------------------------------------------------------------

\* markUpdateLaneFromFiberToRoot(fiber): the root id, or 0 for null
RECURSIVE TopOf(_, _)
TopOf(F, node) == IF F[node].return = 0 THEN node ELSE TopOf(F, F[node].return)

markUpdateLaneFromFiberToRoot(F, fiber) ==
    LET node == TopOf(F, fiber)
    IN  IF F[node].tag = HostRoot THEN F[node].stateNode.root ELSE 0

\* ------------------------------------------------------------------------
\* Calls made from a component function while a build is in flight.  The
\* component Nag makes one call of the reconciler when it is rendered, the
\* call H.reenter, and renders nothing.
\* ------------------------------------------------------------------------
NoReentry == [op |-> "none"]

\* ensureRootIsScheduled that does not look at workStatus.
ensureRootIsScheduled_Always(H, root) ==
    [createWorkInProgress(H, H.roots[root].current, Null)
        EXCEPT !.workStatus = "Working", !.rebuilt = TRUE]

\* ensureRootIsScheduled with a status of its own for every root: work goes
\* on for root only when root is the one being built.
ensureRootIsScheduled_PerRoot(H, root) ==
    IF H.callRoot = root THEN H
    ELSE [createWorkInProgress(H, H.roots[root].current, Null)
             EXCEPT !.workStatus = "Working", !.rebuilt = TRUE]

\* ensureRootIsScheduled(root), called below a component function.  Its
\* second branch would run a whole build and commit inside the call; the
\* model goes as far as the assignment of workInProgress by
\* performSyncWorkOnRoot and records that it happened.
ensureRootIsScheduled(H, root) ==
    IF H.workStatus # "Idle" THEN H
    ELSE [createWorkInProgress(H, H.roots[root].current, Null)
             EXCEPT !.workStatus = "Working", !.rebuilt = TRUE]

\* scheduleUpdateOnFiber(fiber), called below a component function
scheduleUpdateOnFiberIn(H, fiber) ==
    LET root == markUpdateLaneFromFiberToRoot(H.fibers, fiber)
    IN  IF root = 0 THEN H ELSE ensureRootIsScheduled(H, root)

\* enqueueUpdate(fiber, update) with a fresh update carrying payload
enqueueUpdateIn(H, fiber, payload) ==
    enqueueUpdate([H EXCEPT !.updates = Append(@, createUpdate(payload))],
                  fiber, Len(H.updates) + 1)

\* updateContainer(element, container), called below a component function
updateContainerIn(H, element, r) ==
    scheduleUpdateOnFiberIn(
        enqueueUpdateIn(H, H.roots[r].current, [element |-> element]),
        H.roots[r].current)

\* beginWork has been called in this build on the fiber or on its alternate.
BegunIn(H, fiber) ==
    \E i \in 1..Len(H.trace) :
       /\ H.trace[i].ev = "begin"
       /\ H.trace[i].fiber \in {fiber, H.fibers[fiber].alternate}

\* The entry of the history of nested calls for a call on the fiber target
\* that took the heap H to H1.
NestedEntry(H, H1, op, target, payload) ==
    [op |-> op, fiber |-> target, update |-> Len(H1.updates),
     queue |-> H1.fibers[target].updateQueue, payload |-> payload,
     begun |-> BegunIn(H, target), paired |-> H.fibers[target].alternate # 0,
     root |-> H.callRoot, builds |-> H.buildCount, started |-> H1.rebuilt]

\* The call Nag makes, on the heap H.
CallReenter(H) ==
    LET c == H.reenter
    IN  CASE c.op = "updateContainer" ->
               Const(updateContainerIn(H, c.element, c.root), LAMBDA H1 :
                   [H1 EXCEPT !.nested = Append(@,
                       NestedEntry(H, H1, c.op, H.roots[c.root].current,
                                   [element |-> c.element]))])
          [] c.op = "enqueueUpdate" ->
               Const(enqueueUpdateIn(H, c.fiber, c.payload), LAMBDA H1 :
                   [H1 EXCEPT !.nested = Append(@,
                       NestedEntry(H, H1, c.op, c.fiber, c.payload))])
          [] OTHER -> H

\* The heap after the body of the component function has run.
ComponentCalls(H, type) == IF type.name = "Nag" THEN CallReenter(H) ELSE H

\* The component functions of the model: Component(props).  Hello is the
\* component of demo-my-react.tsx; Late and Bomb render nothing during the
\* first top-level call and children afterwards, one of Bomb's having a type
\* that createFiberFromElement rejects.
CallComponent(type, props, tick) ==
    CASE type.name = "Hello" -> createElementC(Str("div"), "hello-fn", Str("Hi"))
      [] type.name = "Late" ->
           IF tick <= 1 THEN Null ELSE createElement1(Str("p"), Str("x"))
      [] type.name = "Bomb" ->
           IF tick <= 1 THEN Null
           ELSE Arr(<<Str("x"),
                      createElement1(Str("p"), ReactElement(Num(4), Null, EmptyObj))>>)
      [] type.name = "Nag" -> Null
      [] OTHER -> Get(props, "children")

\* The for loop of mountChildFibers from the i-th entry of childArray on.
RECURSIVE MountLoop(_, _, _, _, _, _)
MountLoop(H, parent, childArray, i, prevFiber, index) ==
    IF i > Len(childArray) THEN H
    ELSE
    LET child == childArray[i]
        isText == TypeOf(child) \in {"string", "number"}
        isElement == TypeOf(child) = "object" /\ child # Null /\ HasKey(child, "typeof")
    IN  IF ~isText /\ ~isElement
        THEN MountLoop(H, parent, childArray, i + 1, prevFiber, index + 1)
        ELSE IF isElement /\ ElementTag(Get(child, "type")) = -1
        THEN [H EXCEPT !.err = "Unknown element type"]
        ELSE
        LET newFiber == Len(H.fibers) + 1
            created == IF isText THEN createFiberFromText(ToStr(child))
                       ELSE createFiberFromElement(child)
            linked == [created EXCEPT !.return = parent, !.index = index,
                                      !.flags = OrFlag(@, Placement)]
            F1 == Append(H.fibers, linked)
            F2 == IF prevFiber = 0 THEN [F1 EXCEPT ![parent].child = newFiber]
                  ELSE [F1 EXCEPT ![prevFiber].sibling = newFiber]
        IN  MountLoop([H EXCEPT !.fibers = F2, !.mounted = @ \cup {newFiber}],
                      parent, childArray, i + 1, newFiber, index + 1)

\* mountChildFibers(parent, children)
mountChildFibers(H, parent, children) ==
    IF children = Null \/ children = Undefined \/ children = Bool(FALSE)
    THEN [H EXCEPT !.fibers[parent].child = 0]
    ELSE MountLoop(H, parent, IF IsArray(children) THEN children.arr ELSE <<children>>,
                   1, 0, 0)

\* The while loop of cloneChildFibers.
RECURSIVE CloneSiblings(_, _, _, _)
CloneSiblings(H, workInProgress, currentChild, newChild) ==
    IF H.fibers[currentChild].sibling = 0
    THEN [H EXCEPT !.fibers[newChild].sibling = 0]
    ELSE
    LET nextChild == H.fibers[currentChild].sibling
        nextNew == WipOf(H, nextChild)
        H1 == createWorkInProgress(H, nextChild, H.fibers[nextChild].pendingProps)
    IN  CloneSiblings([H1 EXCEPT !.fibers[newChild].sibling = nextNew,
                                 !.fibers[nextNew].return = workInProgress],
                      workInProgress, nextChild, nextNew)

\* cloneChildFibers that does not assign the return pointer of the first
\* clone.
cloneChildFibers_FirstUnparented(H, current, workInProgress) ==
    IF current # 0 /\ H.fibers[workInProgress].child # H.fibers[current].child
    THEN [H EXCEPT !.err = "Resuming work not yet implemented."]
    ELSE IF H.fibers[workInProgress].child = 0 THEN H
    ELSE
    LET currentChild == H.fibers[workInProgress].child
        newChild == WipOf(H, currentChild)
        H1 == createWorkInProgress(H, currentChild, H.fibers[currentChild].pendingProps)
    IN  CloneSiblings([H1 EXCEPT !.fibers[workInProgress].child = newChild],
                      workInProgress, currentChild, newChild)

\* cloneChildFibers that assigns the return pointer of the fiber it clones
\* first, not of the clone.
cloneChildFibers_ReparentsCurrent(H, current, workInProgress) ==
    IF current # 0 /\ H.fibers[workInProgress].child # H.fibers[current].child
    THEN [H EXCEPT !.err = "Resuming work not yet implemented."]
    ELSE IF H.fibers[workInProgress].child = 0 THEN H
    ELSE
    LET currentChild == H.fibers[workInProgress].child
        newChild == WipOf(H, currentChild)
        H1 == createWorkInProgress(H, currentChild, H.fibers[currentChild].pendingProps)
    IN  CloneSiblings([H1 EXCEPT !.fibers[workInProgress].child = newChild,
                                 !.fibers[currentChild].return = workInProgress],
                      workInProgress, currentChild, newChild)

\* cloneChildFibers(current, workInProgress)
cloneChildFibers(H, current, workInProgress) ==
    IF current # 0 /\ H.fibers[workInProgress].child # H.fibers[current].child
    THEN [H EXCEPT !.err = "Resuming work not yet implemented."]
    ELSE IF H.fibers[workInProgress].child = 0 THEN H
    ELSE
    LET currentChild == H.fibers[workInProgress].child
        newChild == WipOf(H, currentChild)
        H1 == createWorkInProgress(H, currentChild, H.fibers[currentChild].pendingProps)
    IN  CloneSiblings([H1 EXCEPT !.fibers[workInProgress].child = newChild,
                                 !.fibers[newChild].return = workInProgress],
                      workInProgress, currentChild, newChild)

\* updateHostRoot without its clone branch.
updateHostRoot_AlwaysMounts(H, current, workInProgress) ==
    mountChildFibers(H, workInProgress, H.fibers[workInProgress].memoizedState)

\* updateHostRoot(current, workInProgress), up to its return
updateHostRoot(H, current, workInProgress) ==
    LET element == H.fibers[workInProgress].memoizedState
    IN  IF current = 0 \/ H.fibers[current].child = 0
        THEN mountChildFibers(H, workInProgress, element)
        ELSE cloneChildFibers(H, current, workInProgress)

\* updateHostComponent(current, workInProgress), up to its return
updateHostComponent(H, current, workInProgress) ==
    LET nextProps == H.fibers[workInProgress].pendingProps
        nextChildren == IF Truthy(nextProps) THEN Get(nextProps, "children") ELSE Null
    IN  IF current = 0 \/ H.fibers[current].child = 0
        THEN mountChildFibers(H, workInProgress, nextChildren)
        ELSE cloneChildFibers(H, current, workInProgress)

\* updateFunctionComponent(current, workInProgress), up to its return
updateFunctionComponent(H, current, workInProgress) ==
    LET nextProps == IF Truthy(H.fibers[workInProgress].pendingProps)
                     THEN H.fibers[workInProgress].pendingProps ELSE EmptyObj
        Component == H.fibers[workInProgress].type
        nextChildren == IF TypeOf(Component) = "function"
                        THEN CallComponent(Component, nextProps, H.tick) ELSE Null
    IN  Const(IF TypeOf(Component) = "function" THEN ComponentCalls(H, Component)
              ELSE H, LAMBDA H1 :
        IF current = 0 \/ H1.fibers[current].child = 0
        THEN mountChildFibers(H1, workInProgress, nextChildren)
        ELSE cloneChildFibers(H1, current, workInProgress))

\* updateClassComponent(current, workInProgress), up to its return
updateClassComponent(H, current, workInProgress) ==
    LET nextProps == H.fibers[workInProgress].pendingProps
        nextChildren == IF Truthy(nextProps) THEN Get(nextProps, "children") ELSE Null
    IN  IF current = 0 \/ H.fibers[current].child = 0
        THEN mountChildFibers(H, workInProgress, nextChildren)
        ELSE cloneChildFibers(H, current, workInProgress)

\* beginWork(current, workInProgress): the heap it leaves; the fiber it
\* returns is the child of workInProgress in that heap (BeginNext).
beginWork(H, current, workInProgress) ==
    Const(processUpdateQueue(H, workInProgress, H.fibers[workInProgress].pendingProps),
          LAMBDA H1 :
    LET tag == H1.fibers[workInProgress].tag
    IN  CASE tag = HostRoot -> updateHostRoot(H1, current, workInProgress)
          [] tag = HostComponent -> updateHostComponent(H1, current, workInProgress)
          [] tag = FunctionComponent -> updateFunctionComponent(H1, current, workInProgress)
          [] tag = ClassComponent -> updateClassComponent(H1, current, workInProgress)
          [] tag = HostText -> H1
          [] OTHER -> [H1 EXCEPT !.err = "Unknown work tag"])

BeginNext(H, workInProgress) ==
    IF H.fibers[workInProgress].tag = HostText THEN 0
    ELSE H.fibers[workInProgress].child

\* ------------------------------------------------------------------------
\* Commit: placement
\* ------------------------------------------------------------------------

\* getHostParentDom(fiber): a DOM node, or 0 for null
RECURSIVE HostParentFrom(_, _, _)
HostParentFrom(fibers, rootRecs, parent) ==
    IF parent = 0 THEN 0
    ELSE IF fibers[parent].tag = HostComponent
    THEN (IF "dom" \in DOMAIN fibers[parent].stateNode
          THEN fibers[parent].stateNode.dom ELSE 0)
    ELSE IF fibers[parent].tag = HostRoot
    THEN rootRecs[fibers[parent].stateNode.root].containerInfo
    ELSE HostParentFrom(fibers, rootRecs, fibers[parent].return)

getHostParentDom(fibers, rootRecs, fiber) ==
    HostParentFrom(fibers, rootRecs, fibers[fiber].return)

\* The DOM node a fiber's stateNode holds, or 0.
DomOf(fibers, fiber) ==
    IF "dom" \in DOMAIN fibers[fiber].stateNode THEN fibers[fiber].stateNode.dom ELSE 0

\* commitPlacement(finishedWork)
commitPlacement(doms, fibers, rootRecs, finishedWork) ==
    LET parentDom == getHostParentDom(fibers, rootRecs, finishedWork)
        dom == DomOf(fibers, finishedWork)
    IN  IF parentDom = 0 THEN doms
        ELSE IF dom # 0 THEN DomAppendChild(doms, parentDom, dom)
        ELSE doms

\* ------------------------------------------------------------------------
\* The work loop: complete phase
\* ------------------------------------------------------------------------

\* The switch of completeWork: the instance handle of a host fiber.
completeWorkInstance(H, workInProgress) ==
    LET fiber == H.fibers[workInProgress]
        dom == Len(H.doms) + 1
    IN  CASE fiber.tag = HostRoot -> H
          [] fiber.tag = HostComponent ->
               IF ~IsNullish(fiber.stateNode) THEN H
               ELSE IF ToStr(fiber.type) \in InvalidTagNames
               THEN [H EXCEPT !.err = "InvalidCharacterError"]
               ELSE
               LET props == IF Truthy(fiber.pendingProps) THEN fiber.pendingProps
                            ELSE IF Truthy(fiber.memoizedProps) THEN fiber.memoizedProps
                            ELSE EmptyObj
                   own == OwnProps(props)
               IN  [H EXCEPT
                      !.doms = Append(@, SetDomProps(DomElement(ToStr(fiber.type)),
                                                     own, DOMAIN own)),
                      !.fibers[workInProgress].stateNode = [dom |-> dom]]
          [] fiber.tag = HostText ->
               IF ~IsNullish(fiber.stateNode) THEN H
               ELSE
               LET text == IF ~IsNullish(fiber.pendingProps) THEN ToStr(fiber.pendingProps)
                           ELSE IF ~IsNullish(fiber.memoizedProps)
                           THEN ToStr(fiber.memoizedProps)
                           ELSE ""
               IN  [H EXCEPT !.doms = Append(@, DomText(text)),
                             !.fibers[workInProgress].stateNode = [dom |-> dom]]
          [] fiber.tag = FunctionComponent -> H
          [] fiber.tag = ClassComponent -> H
          [] OTHER -> [H EXCEPT !.err = "Unknown work tag"]

\* completeWork, first half of the effect collection: the effect list of the
\* subtree of workInProgress is appended to the list of its parent.
spliceSubtreeEffects(fibers, workInProgress) ==
    LET returnFiber == fibers[workInProgress].return
        F1 == IF fibers[returnFiber].firstEffect = 0
              THEN [fibers EXCEPT ![returnFiber].firstEffect =
                                      fibers[workInProgress].firstEffect]
              ELSE fibers
        F2 == IF F1[returnFiber].lastEffect # 0
              THEN [F1 EXCEPT ![F1[returnFiber].lastEffect].nextEffect =
                                  F1[workInProgress].firstEffect]
              ELSE F1
    IN  IF F1[workInProgress].lastEffect # 0
        THEN [F2 EXCEPT ![returnFiber].lastEffect = F2[workInProgress].lastEffect]
        ELSE F1

\* completeWork, second half: workInProgress itself is appended when it has
\* flags.
appendOwnEffect(fibers, workInProgress) ==
    LET returnFiber == fibers[workInProgress].return
        F1 == IF fibers[returnFiber].lastEffect # 0
              THEN [fibers EXCEPT ![fibers[returnFiber].lastEffect].nextEffect =
                                      workInProgress]
              ELSE [fibers EXCEPT ![returnFiber].firstEffect = workInProgress]
    IN  IF fibers[workInProgress].flags # 0
        THEN [F1 EXCEPT ![returnFiber].lastEffect = workInProgress]
        ELSE fibers

\* The effect collection with its halves in the other order.
completeWorkEffects_OwnFirst(fibers, workInProgress) ==
    IF fibers[workInProgress].return = 0 THEN fibers
    ELSE spliceSubtreeEffects(appendOwnEffect(fibers, workInProgress), workInProgress)

\* The rest of completeWork: the effects of workInProgress and of its subtree
\* are appended to the effect list of its parent.
completeWorkEffects(fibers, workInProgress) ==
    IF fibers[workInProgress].return = 0 THEN fibers
    ELSE appendOwnEffect(spliceSubtreeEffects(fibers, workInProgress), workInProgress)

\* completeWork appending the instance of a fiber flagged Placement to its
\* host parent as soon as the fiber is completed.
completeWork_PlacesEagerly(H, workInProgress) ==
    LET H1 == completeWorkInstance(H, workInProgress)
        H2 == [H1 EXCEPT !.fibers = completeWorkEffects(H1.fibers, workInProgress)]
    IN  IF H1.err # "none" THEN H1
        ELSE IF HasFlag(H2.fibers[workInProgress].flags, Placement)
        THEN [H2 EXCEPT !.doms = commitPlacement(@, H2.fibers, H2.roots, workInProgress)]
        ELSE H2

\* completeWork(workInProgress)
completeWork(H, workInProgress) ==
    LET H1 == completeWorkInstance(H, workInProgress)
    IN  IF H1.err # "none" THEN H1
        ELSE [H1 EXCEPT !.fibers = completeWorkEffects(H1.fibers, workInProgress)]

\* The call of beginWork or completeWork on a fiber, recorded in the history
\* of the build.
Visit(H, ev, fiber) == [H EXCEPT !.trace = Append(@, [ev |-> ev, fiber |-> fiber])]

\* The while loop of completeUnitOfWork: the heap it leaves and the fiber it
\* returns.
RECURSIVE CompleteUp(_, _)
CompleteUp(H, completedWork) ==
    IF completedWork = 0 THEN [H |-> H, next |-> 0]
    ELSE Const(completeWork(Visit(H, "complete", completedWork), completedWork),
               LAMBDA H1 :
        IF H1.err # "none" THEN [H |-> H1, next |-> 0]
        ELSE IF H1.fibers[completedWork].sibling # 0
        THEN [H |-> H1, next |-> H1.fibers[completedWork].sibling]
        ELSE CompleteUp(H1, H1.fibers[completedWork].return))

\* completeUnitOfWork that goes on to the sibling or the parent without
\* completing unitOfWork.
completeUnitOfWork_SkipsOwn(H, unitOfWork) ==
    IF H.fibers[unitOfWork].sibling # 0
    THEN [H |-> H, next |-> H.fibers[unitOfWork].sibling]
    ELSE CompleteUp(H, H.fibers[unitOfWork].return)

\* completeUnitOfWork(unitOfWork)
completeUnitOfWork(H, unitOfWork) ==
    Const(completeWork(Visit(H, "complete", unitOfWork), unitOfWork), LAMBDA H1 :
        IF H1.err # "none" THEN [H |-> H1, next |-> 0]
        ELSE IF H1.fibers[unitOfWork].sibling # 0
        THEN [H |-> H1, next |-> H1.fibers[unitOfWork].sibling]
        ELSE CompleteUp(H1, H1.fibers[unitOfWork].return))

\* performUnitOfWork(unitOfWork): the heap it leaves and the fiber it assigns
\* to workInProgress (when nothing is thrown).
performUnitOfWork(H, unitOfWork) ==
    Const(beginWork(Visit(H, "begin", unitOfWork), H.fibers[unitOfWork].alternate,
                    unitOfWork), LAMBDA H1 :
        IF H1.err # "none" THEN [H |-> H1, next |-> 0]
        ELSE IF BeginNext(H1, unitOfWork) = 0 THEN completeUnitOfWork(H1, unitOfWork)
        ELSE [H |-> H1, next |-> BeginNext(H1, unitOfWork)])

\* ------------------------------------------------------------------------
\* Commit
\* ------------------------------------------------------------------------

\* commitUpdate(finishedWork)
commitUpdate(doms, fibers, rootRecs, finishedWork) == doms

\* commitDeletion(finishedWork).  A node is attached by commitPlacement only,
\* to the host parent of its fiber, so the node contains() finds under
\* parentDom is a child of parentDom and removeChild removes it.
commitDeletion(doms, fibers, rootRecs, finishedWork) ==
    LET dom == DomOf(fibers, finishedWork)
        parentDom == getHostParentDom(fibers, rootRecs, finishedWork)
    IN  IF dom # 0 /\ parentDom # 0 /\ DomContains(doms, parentDom, dom)
           /\ doms[dom].parent = parentDom
        THEN DomRemoveChild(doms, parentDom, dom)
        ELSE doms

\* One turn of the while loop of commitAllEffects, for the fiber effect.
commitEffect(doms, fibers, rootRecs, effect) ==
    LET flags == fibers[effect].flags
        D1 == IF HasFlag(flags, Placement)
              THEN commitPlacement(doms, fibers, rootRecs, effect) ELSE doms
        D2 == IF HasFlag(flags, Update)
              THEN commitUpdate(D1, fibers, rootRecs, effect) ELSE D1
        D3 == IF HasFlag(flags, Deletion)
              THEN commitDeletion(D2, fibers, rootRecs, effect) ELSE D2
    IN  D3

\* ------------------------------------------------------------------------
\* The state.
\* ------------------------------------------------------------------------
VARIABLES
    fibers,          \* the Fiber objects
    updates,         \* the Update objects
    queues,          \* the UpdateQueue objects
    doms,            \* the DOM nodes; node r is the container of root r
    roots,           \* the FiberRoot objects
    workStatus,      \* let workStatus: 'Idle' | 'Working' | 'Committing'
    workInProgress,  \* let workInProgress: Fiber | null
    callRoot,        \* the root of the performSyncWorkOnRoot call on the stack, or 0
    finishedWork,    \* the local finishedWork of commitRoot, 0 outside a commit
    effect,          \* the local effect of commitAllEffects
    thrown,          \* "none", or the Error that left the last top-level call
    calls,           \* history: the top-level calls made so far
    rootsAtCall,     \* history: roots when the last top-level call began
    domsAtCall,      \* history: doms when the last top-level call began
    builds,          \* history: the number of builds started on each root
    mounted,         \* history: fibers created by mountChildFibers in the last build
    cloned,          \* history: fibers returned by createWorkInProgress in the last build
    enqLog,          \* history: for each queue, the payloads enqueued since its last cut
    lastProcess,     \* history: the last processUpdateQueue call on a fiber with a queue
    trace,           \* history: the beginWork and completeWork calls of the last build
    folded,          \* history: the updates folded by processUpdateQueue, in order
    nested           \* history: the calls made from component functions

vars == <<fibers, updates, queues, doms, roots, workStatus, workInProgress,
          callRoot, finishedWork, effect, thrown, calls, rootsAtCall,
          domsAtCall, builds, mounted, cloned, enqLog, lastProcess, trace,
          folded, nested>>

RootIds == 1..NumRoots

\* createFiberRoot(containerInfo), for the container doms[r]
createFiberRoot(r) ==
    [containerInfo |-> r, current |-> r, finishedWork |-> 0, pendingTime |-> 0,
     callbackNode |-> Null, callbackPriority |-> 0]

\* The state after createContainer has been called once for each container.
Init ==
    /\ fibers = [r \in RootIds |-> [createHostRootFiber EXCEPT !.stateNode = [root |-> r]]]
    /\ updates = <<>>
    /\ queues = <<>>
    /\ doms = [r \in RootIds |-> DomElement("div")]
    /\ roots = [r \in RootIds |-> createFiberRoot(r)]
    /\ workStatus = "Idle"
    /\ workInProgress = 0
    /\ callRoot = 0
    /\ finishedWork = 0
    /\ effect = 0
    /\ thrown = "none"
    /\ calls = <<>>
    /\ rootsAtCall = roots
    /\ domsAtCall = doms
    /\ builds = [r \in RootIds |-> 0]
    /\ mounted = {}
    /\ cloned = {}
    /\ enqLog = <<>>
    /\ lastProcess = [fiber |-> 0, props |-> Null, log |-> <<>>]
    /\ trace = <<>>
    /\ folded = <<>>
    /\ nested = <<>>

\* The heap record of the current state.
Heap ==
    [fibers |-> fibers, updates |-> updates, queues |-> queues, doms |-> doms,
     roots |-> roots, err |-> "none", tick |-> Len(calls), mounted |-> mounted,
     cloned |-> cloned, trace |-> trace, folded |-> folded,
     workStatus |-> workStatus, reenter |-> NoReentry, nested |-> nested,
     rebuilt |-> FALSE, callRoot |-> callRoot,
     buildCount |-> IF callRoot = 0 THEN 0 ELSE builds[callRoot]]

\* ------------------------------------------------------------------------
\* The descriptions handed to updateContainer.
\* ------------------------------------------------------------------------
DivHi == createElement1(Str("div"), Str("Hi"))
DivBye == createElement1(Str("div"), Str("Bye"))
HelloElement == createElement0(Fn("Hello"))
BoxElement == createElement1(Fn("Box"), Str("b"))
ListElement ==
    createElementN(Str("div"),
        <<Null, Str("a"), createElement0(Str("span")), Num(1), HelloElement>>)
LateList == Arr(<<DivHi, Bool(TRUE), createElement0(Fn("Late")), BoxElement>>)
BombList == Arr(<<DivHi, createElement0(Fn("Bomb"))>>)
BadTypeElement ==
    createElementN(Str("div"), <<Str("x"), ReactElement(Num(4), Null, EmptyObj)>>)
BadTagElement == createElement1(Str("div"), createElement0(Str("")))

Descriptions ==
    {Null, DivHi, DivBye, ListElement, LateList, BombList, BadTypeElement,
     BadTagElement}

\* ------------------------------------------------------------------------
\* Scheduling (ReactFiberWorkLoop.ts)
\* ------------------------------------------------------------------------

\* performSyncWorkOnRoot making the work-in-progress root current at once.
performSyncWorkOnRoot_SwapsCurrent(H, rootRecs, root) ==
    [H |-> createWorkInProgress(H, rootRecs[root].current, Null),
     wip |-> WipOf(H, rootRecs[root].current),
     roots |-> [rootRecs EXCEPT ![root].current = WipOf(H, rootRecs[root].current)]]

\* performSyncWorkOnRoot(root) up to the call of workLoopSync: the heap, the
\* fiber assigned to workInProgress and the FiberRoot objects it leaves.
performSyncWorkOnRoot(H, rootRecs, root) ==
    [H |-> createWorkInProgress(H, rootRecs[root].current, Null),
     wip |-> WipOf(H, rootRecs[root].current),
     roots |-> rootRecs]

\* scheduleUpdateOnFiber(fiber) on the heap H, up to the first turn of
\* workLoopSync: nothing happens when no root is found or work is under way
\* (ensureRootIsScheduled); otherwise performSyncWorkOnRoot begins.
scheduleUpdateOnFiber(H, fiber, entry) ==
    LET root == markUpdateLaneFromFiberToRoot(H.fibers, fiber)
        starts == root # 0 /\ workStatus = "Idle"
        S == performSyncWorkOnRoot([H EXCEPT !.mounted = {}, !.cloned = {},
                                             !.trace = <<>>],
                                   roots, root)
    IN  /\ fibers' = IF starts THEN S.H.fibers ELSE H.fibers
        /\ updates' = H.updates
        /\ queues' = H.queues
        /\ roots' = IF starts THEN S.roots ELSE roots
        /\ mounted' = IF starts THEN S.H.mounted ELSE mounted
        /\ cloned' = IF starts THEN S.H.cloned ELSE cloned
        /\ trace' = IF starts THEN S.H.trace ELSE trace
        /\ folded' = H.folded
        /\ workStatus' = IF starts THEN "Working" ELSE workStatus
        /\ workInProgress' = IF starts THEN S.wip ELSE workInProgress
        /\ callRoot' = IF starts THEN root ELSE 0
        /\ builds' = IF starts THEN [builds EXCEPT ![root] = @ + 1] ELSE builds
        /\ calls' = Append(calls, [entry EXCEPT !.started = starts])
        /\ rootsAtCall' = roots
        /\ domsAtCall' = doms
        /\ thrown' = "none"
        /\ UNCHANGED <<doms, finishedWork, effect, nested>>

\* enqLog after a payload has been enqueued on the queue q.
LogEnqueueIn(log, q, payload) ==
    IF q > Len(log) THEN Append(log, <<payload>>)
    ELSE [log EXCEPT ![q] = Append(@, payload)]

LogEnqueue(q, payload) == LogEnqueueIn(enqLog, q, payload)

\* The containers are interchangeable: the callers use them in the order of
\* their creation, root r receiving its first call after root r - 1 has.
InUse(r) == r = 1 \/ \E i \in 1..Len(calls) : calls[i].root = r - 1

\* updateContainer(element, container)
UpdateContainer(r, element) ==
    /\ callRoot = 0
    /\ Len(calls) < MaxCalls
    /\ InUse(r)
    /\ LET current == roots[r].current
           update == Len(updates) + 1
           H0 == [Heap EXCEPT !.updates = Append(@, createUpdate([element |-> element]))]
           H1 == enqueueUpdate(H0, current, update)
       IN  /\ scheduleUpdateOnFiber(H1, current,
                  [op |-> "updateContainer", root |-> r, arg |-> element,
                   update |-> update, started |-> FALSE])
           /\ enqLog' = LogEnqueue(H1.fibers[current].updateQueue, [element |-> element])
           /\ UNCHANGED lastProcess

\* The fibers of the tree under the fiber node, node included.
RECURSIVE TreeOf(_, _)
TreeOf(F, node) ==
    IF node = 0 THEN {}
    ELSE {node} \cup TreeOf(F, F[node].child) \cup
         (IF F[node].return = 0 THEN {} ELSE TreeOf(F, F[node].sibling))

\* scheduleUpdateOnFiber(fiber), called on a fiber of a committed tree
ScheduleUpdateOnFiber(r, fiber) ==
    /\ callRoot = 0
    /\ Len(calls) < MaxCalls
    /\ InUse(r)
    /\ fiber \in TreeOf(fibers, roots[r].current)
    /\ scheduleUpdateOnFiber(Heap, fiber,
           [op |-> "scheduleUpdateOnFiber", root |-> r, arg |-> Null,
            update |-> 0, started |-> FALSE])
    /\ UNCHANGED <<enqLog, lastProcess>>

\* One turn of workLoopSync, the component function called in it, if it is
\* Nag, making the call reenter.  An Error leaves performUnitOfWork before it
\* assigns workInProgress, and nothing on the stack catches it.
WorkStep(reenter) ==
    /\ callRoot # 0
    /\ workStatus = "Working"
    /\ workInProgress # 0
    /\ \E R \in {performUnitOfWork([Heap EXCEPT !.reenter = reenter], workInProgress)} :
       LET queue == fibers[workInProgress].updateQueue
           cutLog == IF queue = 0 THEN enqLog ELSE [enqLog EXCEPT ![queue] = <<>>]
           call == R.H.nested[Len(R.H.nested)]
       IN  /\ enqLog' = IF R.H.nested = nested THEN cutLog
                         ELSE LogEnqueueIn(cutLog, call.queue, call.payload)
           /\ lastProcess' = IF queue = 0 THEN lastProcess
                             ELSE [fiber |-> workInProgress,
                                   props |-> fibers[workInProgress].pendingProps,
                                   log |-> enqLog[queue]]
           /\ fibers' = R.H.fibers
           /\ updates' = R.H.updates
           /\ queues' = R.H.queues
           /\ doms' = R.H.doms
           /\ mounted' = R.H.mounted
           /\ cloned' = R.H.cloned
           /\ trace' = R.H.trace
           /\ folded' = R.H.folded
           /\ nested' = R.H.nested
           /\ IF R.H.err # "none"
              THEN /\ thrown' = R.H.err
                   /\ callRoot' = 0
                   /\ UNCHANGED workInProgress
              ELSE /\ workInProgress' = R.next
                   /\ UNCHANGED <<thrown, callRoot>>
    /\ UNCHANGED <<roots, workStatus, finishedWork, effect, calls, rootsAtCall,
                   domsAtCall, builds>>

\* One turn of workLoopSync in which no component function calls the
\* reconciler.
PerformUnitOfWork == WorkStep(NoReentry)

\* One turn of workLoopSync on a fiber of the component Nag, which calls the
\* reconciler.
ReenterUnitOfWork(reenter) ==
    /\ workInProgress # 0
    /\ fibers[workInProgress].type = Fn("Nag")
    /\ Len(nested) < MaxNested
    /\ WorkStep(reenter)

\* commitRoot(root) called before workLoopSync has returned.
CommitRoot_Early ==
    /\ callRoot # 0
    /\ workStatus = "Working"
    /\ LET fw == fibers[roots[callRoot].current].alternate
       IN  /\ workStatus' = "Committing"
           /\ finishedWork' = fw
           /\ effect' = fibers[fw].firstEffect
           /\ UNCHANGED callRoot
    /\ UNCHANGED <<fibers, updates, queues, doms, roots, workInProgress, thrown,
                   calls, rootsAtCall, domsAtCall, builds, mounted, cloned,
                   enqLog, lastProcess, trace, folded, nested>>

\* commitRoot(root) up to the first turn of the loop of commitAllEffects
CommitRoot ==
    /\ callRoot # 0
    /\ workStatus = "Working"
    /\ workInProgress = 0
    /\ LET fw == fibers[roots[callRoot].current].alternate
       IN  IF fw = 0
           THEN /\ workStatus' = "Idle"
                /\ callRoot' = 0
                /\ UNCHANGED <<finishedWork, effect>>
           ELSE /\ workStatus' = "Committing"
                /\ finishedWork' = fw
                /\ effect' = fibers[fw].firstEffect
                /\ UNCHANGED callRoot
    /\ UNCHANGED <<fibers, updates, queues, doms, roots, workInProgress, thrown,
                   calls, rootsAtCall, domsAtCall, builds, mounted, cloned,
                   enqLog, lastProcess, trace, folded, nested>>

\* A turn of the loop of commitAllEffects that does not move on to
\* nextEffect.
CommitEffect_Stays ==
    /\ workStatus = "Committing"
    /\ effect # 0
    /\ doms' = commitEffect(doms, fibers, roots, effect)
    /\ UNCHANGED <<fibers, updates, queues, roots, workStatus, workInProgress,
                   callRoot, finishedWork, effect, thrown, calls, rootsAtCall,
                   domsAtCall, builds, mounted, cloned, enqLog, lastProcess,
                   trace, folded, nested>>

\* One turn of the while loop of commitAllEffects.
CommitEffect ==
    /\ workStatus = "Committing"
    /\ effect # 0
    /\ doms' = commitEffect(doms, fibers, roots, effect)
    /\ effect' = fibers[effect].nextEffect
    /\ UNCHANGED <<fibers, updates, queues, roots, workStatus, workInProgress,
                   callRoot, finishedWork, thrown, calls, rootsAtCall,
                   domsAtCall, builds, mounted, cloned, enqLog, lastProcess,
                   trace, folded, nested>>

\* The end of commitRoot without the assignment of root.current.
CommitFinish_KeepsCurrent ==
    /\ workStatus = "Committing"
    /\ effect = 0
    /\ roots' = [roots EXCEPT ![callRoot].finishedWork = 0]
    /\ workStatus' = "Idle"
    /\ callRoot' = 0
    /\ finishedWork' = 0
    /\ UNCHANGED <<fibers, updates, queues, doms, workInProgress, effect, thrown,
                   calls, rootsAtCall, domsAtCall, builds, mounted, cloned,
                   enqLog, lastProcess, trace, folded, nested>>

\* The end of commitRoot, after commitRootImpl has returned.
CommitFinish ==
    /\ workStatus = "Committing"
    /\ effect = 0
    /\ roots' = [roots EXCEPT ![callRoot].current = finishedWork,
                              ![callRoot].finishedWork = 0]
    /\ workStatus' = "Idle"
    /\ callRoot' = 0
    /\ finishedWork' = 0
    /\ UNCHANGED <<fibers, updates, queues, doms, workInProgress, effect, thrown,
                   calls, rootsAtCall, domsAtCall, builds, mounted, cloned,
                   enqLog, lastProcess, trace, folded, nested>>

Next ==
    \/ \E r \in RootIds, element \in Descriptions : UpdateContainer(r, element)
    \/ \E r \in RootIds, fiber \in 1..Len(fibers) : ScheduleUpdateOnFiber(r, fiber)
    \/ PerformUnitOfWork
    \/ CommitRoot
    \/ CommitEffect
    \/ CommitFinish

Spec == Init /\ [][Next]_vars

\* ------------------------------------------------------------------------
\* The update queue on its own: enqueueUpdate and processUpdateQueue called
\* directly on the root fiber of the first tree pair, with payloads of every
\* kind.
\* ------------------------------------------------------------------------
QueuePayloads ==
    {[element |-> Null], [element |-> DivHi], [element |-> Undefined],
     Fn("inc"), Fn("double"), Fn("props"),
     [count |-> Num(5)], [flag |-> Bool(TRUE)]}

QueueProps == {Null, [count |-> Num(3)]}

\* enqueueUpdate(fiber, update) with a fresh update carrying payload
EnqueueUpdate(r, payload) ==
    /\ callRoot = 0
    /\ Len(updates) < MaxEnq
    /\ LET fiber == roots[r].current
           update == Len(updates) + 1
           H0 == [Heap EXCEPT !.updates = Append(@, createUpdate(payload))]
           H1 == enqueueUpdate(H0, fiber, update)
       IN  /\ fibers' = H1.fibers
           /\ updates' = H1.updates
           /\ queues' = H1.queues
           /\ enqLog' = LogEnqueue(H1.fibers[fiber].updateQueue, payload)
    /\ UNCHANGED <<doms, roots, workStatus, workInProgress, callRoot,
                   finishedWork, effect, thrown, calls, rootsAtCall, domsAtCall,
                   builds, mounted, cloned, lastProcess, trace, folded, nested>>

\* processUpdateQueue(fiber, props, null)
ProcessUpdateQueue(r, props) ==
    /\ callRoot = 0
    /\ LET fiber == roots[r].current
           queue == fibers[fiber].updateQueue
           H1 == processUpdateQueue(Heap, fiber, props)
       IN  /\ fibers' = H1.fibers
           /\ updates' = H1.updates
           /\ queues' = H1.queues
           /\ enqLog' = IF queue = 0 THEN enqLog ELSE [enqLog EXCEPT ![queue] = <<>>]
           /\ lastProcess' = IF queue = 0 THEN lastProcess
                             ELSE [fiber |-> fiber, props |-> props,
                                   log |-> enqLog[queue]]
           /\ folded' = H1.folded
    /\ UNCHANGED <<doms, roots, workStatus, workInProgress, callRoot,
                   finishedWork, effect, thrown, calls, rootsAtCall, domsAtCall,
                   builds, mounted, cloned, trace, nested>>

NextQueue ==
    \/ \E payload \in QueuePayloads : EnqueueUpdate(1, payload)
    \/ \E props \in QueueProps : ProcessUpdateQueue(1, props)

SpecQueue == Init /\ [][NextQueue]_vars

\* ------------------------------------------------------------------------
\* Builds of a tree with the component Nag: while a build is in flight the
\* component calls updateContainer, or enqueueUpdate on a fiber of one of the
\* two trees of the root being built.
\* ------------------------------------------------------------------------
NagList == Arr(<<createElement0(Fn("Nag")), DivHi>>)

ReenterDescriptions == {NagList, BadTypeElement}

ReenterPayloads == {[count |-> Num(5)]}

\* The calls Nag can make in the current state, a build being in flight.
ReenterCalls ==
    {[op |-> "updateContainer", root |-> r, element |-> DivBye] :
        r \in {r \in RootIds : InUse(r)}}
    \cup
    {[op |-> "enqueueUpdate", fiber |-> f, payload |-> payload] :
        f \in TreeOf(fibers, roots[callRoot].current)
              \cup TreeOf(fibers, fibers[roots[callRoot].current].alternate),
        payload \in ReenterPayloads}

NextReenter ==
    \/ \E r \in RootIds, element \in ReenterDescriptions : UpdateContainer(r, element)
    \/ PerformUnitOfWork
    \/ callRoot # 0 /\ \E reenter \in ReenterCalls : ReenterUnitOfWork(reenter)
    \/ CommitRoot
    \/ CommitEffect
    \/ CommitFinish

SpecReenter == Init /\ [][NextReenter]_vars

\* ------------------------------------------------------------------------
\* Several containers.  createContainer has been called NumPairs times; the
\* module variables workStatus and workInProgress are shared by the tree
\* pairs.  The component Nag, rendered in a build of one pair, calls
\* updateContainer on any of the pairs.
\* ------------------------------------------------------------------------
PairIds == 1..NumPairs

InitPairs ==
    /\ fibers = [r \in PairIds |-> [createHostRootFiber EXCEPT !.stateNode = [root |-> r]]]
    /\ updates = <<>>
    /\ queues = <<>>
    /\ doms = [r \in PairIds |-> DomElement("div")]
    /\ roots = [r \in PairIds |-> createFiberRoot(r)]
    /\ workStatus = "Idle"
    /\ workInProgress = 0
    /\ callRoot = 0
    /\ finishedWork = 0
    /\ effect = 0
    /\ thrown = "none"
    /\ calls = <<>>
    /\ rootsAtCall = roots
    /\ domsAtCall = doms
    /\ builds = [r \in PairIds |-> 0]
    /\ mounted = {}
    /\ cloned = {}
    /\ enqLog = <<>>
    /\ lastProcess = [fiber |-> 0, props |-> Null, log |-> <<>>]
    /\ trace = <<>>
    /\ folded = <<>>
    /\ nested = <<>>

PairDescriptions == {NagList, DivHi, BadTypeElement}

PairCalls ==
    {[op |-> "updateContainer", root |-> r, element |-> DivBye] : r \in PairIds}

NextPairs ==
    \/ \E r \in PairIds, element \in PairDescriptions : UpdateContainer(r, element)
    \/ PerformUnitOfWork
    \/ callRoot # 0 /\ \E reenter \in PairCalls : ReenterUnitOfWork(reenter)
    \/ CommitRoot
    \/ CommitEffect
    \/ CommitFinish

SpecPairs == InitPairs /\ [][NextPairs]_vars

\* ------------------------------------------------------------------------
\* The calls run to their end.  scheduleUpdateOnFiber is synchronous: once
\* performSyncWorkOnRoot has been entered, every turn of the while loop of
\* workLoopSync, the call of commitRoot, every turn of the loop of
\* commitAllEffects and the end of commitRoot follow without a yield, so each
\* of these steps is taken when it can be.  For the turn of workLoopSync the
\* weak fairness condition is written out, WorkLoopRuns being the condition
\* under which performUnitOfWork can take a step.
\* ------------------------------------------------------------------------
WorkLoopRuns == callRoot # 0 /\ workStatus = "Working" /\ workInProgress # 0

WorkLoopFair == []<>(~WorkLoopRuns) \/ []<><<PerformUnitOfWork>>_vars

\* The descriptions of the calls: a tree of one element, a list with skipped
\* entries, components that mount children in a later build, and
\* descriptions for which a build throws in its first or in a later turn.
LiveDescriptions == {DivHi, ListElement, LateList, BombList, BadTypeElement}

NextLive ==
    \/ \E r \in RootIds, element \in LiveDescriptions : UpdateContainer(r, element)
    \/ \E r \in RootIds, fiber \in 1..Len(fibers) : ScheduleUpdateOnFiber(r, fiber)
    \/ PerformUnitOfWork
    \/ CommitRoot
    \/ CommitEffect
    \/ CommitFinish

SpecLive ==
    /\ Init /\ [][NextLive]_vars
    /\ WorkLoopFair
    /\ WF_vars(CommitRoot)
    /\ WF_vars(CommitEffect)
    /\ WF_vars(CommitFinish)

\* ------------------------------------------------------------------------
\* Reading the state.
\* ------------------------------------------------------------------------

\* The effect chain that starts at firstEffect of the fiber root.
RECURSIVE ChainFrom(_, _, _)
ChainFrom(F, e, fuel) ==
    IF e = 0 \/ fuel = 0 THEN <<>>
    ELSE <<e>> \o ChainFrom(F, F[e].nextEffect, fuel - 1)

EffectChain(F, root) == ChainFrom(F, F[root].firstEffect, Len(F))

\* The children of a fiber along child / sibling.
RECURSIVE SiblingsFrom(_, _, _)
SiblingsFrom(F, node, fuel) ==
    IF node = 0 \/ fuel = 0 THEN <<>>
    ELSE <<node>> \o SiblingsFrom(F, F[node].sibling, fuel - 1)

ChildrenOf(F, node) == SiblingsFrom(F, F[node].child, Len(F))

SeqRange(s) == {s[i] : i \in 1..Len(s)}

\* No call is on the stack, every build so far has been committed.
Committed == callRoot = 0 /\ workStatus = "Idle"

\* The traversal of the build in flight has ended: commit is next or under way.
TraversalDone == callRoot # 0 /\ workInProgress = 0

\* The root fiber built by the last build of root r, once its traversal has
\* ended: the alternate of current until commit reassigns current.
BuiltRoot(r) ==
    IF callRoot = r THEN fibers[roots[r].current].alternate ELSE roots[r].current

\* The i-th top-level call was updateContainer(element, root r).
IsUpdateContainer(i, r, element) ==
    /\ i <= Len(calls)
    /\ calls[i].op = "updateContainer"
    /\ calls[i].root = r
    /\ calls[i].arg = element

\* ------------------------------------------------------------------------
\* C1.  From a fresh tree pair with an empty container, one
\* updateContainer(<div>Hi</div>) finishes with the effect chain
\* [text fiber, div fiber], and after commit the container holds exactly the
\* div, which holds exactly one text node "Hi".
\* ------------------------------------------------------------------------
C1_Case(r) == Len(calls) = 1 /\ IsUpdateContainer(1, r, DivHi)

C1_ChainTextThenDiv ==
    \A r \in RootIds :
        C1_Case(r) =>
            /\ (TraversalDone \/ Committed) =>
                  LET chain == EffectChain(fibers, BuiltRoot(r))
                  IN  /\ Len(chain) = 2
                      /\ fibers[chain[1]].tag = HostText
                      /\ fibers[chain[1]].pendingProps = Str("Hi")
                      /\ fibers[chain[2]].tag = HostComponent
                      /\ fibers[chain[2]].type = Str("div")
                      /\ fibers[chain[1]].return = chain[2]
            /\ Committed =>
                  LET kids == doms[roots[r].containerInfo].children
                  IN  /\ Len(kids) = 1
                      /\ doms[kids[1]].nodeType = "element"
                      /\ doms[kids[1]].name = "div"
                      /\ Len(doms[kids[1]].children) = 1
                      /\ doms[doms[kids[1]].children[1]].nodeType = "text"
                      /\ doms[doms[kids[1]].children[1]].data = "Hi"
                      /\ doms[doms[kids[1]].children[1]].children = <<>>

C1_Witness ==
    \E r \in RootIds :
        /\ C1_Case(r)
        /\ Committed
        /\ Len(doms[roots[r].containerInfo].children) = 1

\* ------------------------------------------------------------------------
\* C2.  After <div>Hi</div> has been committed, a second updateContainer on
\* the same root with <div>Bye</div> gives no fiber the Placement flag, and
\* the effect chain of that build holds a fiber with the Update flag.
\* ------------------------------------------------------------------------
C2_Case(r) ==
    Len(calls) = 2 /\ IsUpdateContainer(1, r, DivHi) /\ IsUpdateContainer(2, r, DivBye)

C2_UpdateFlagOnChangedText ==
    \A r \in RootIds :
        (C2_Case(r) /\ (TraversalDone \/ Committed)) =>
            /\ \A f \in TreeOf(fibers, BuiltRoot(r)) : ~HasFlag(fibers[f].flags, Placement)
            /\ \E e \in SeqRange(EffectChain(fibers, BuiltRoot(r))) :
                   HasFlag(fibers[e].flags, Update)

\* ------------------------------------------------------------------------
\* C3.  After a committed build that placed top-level nodes, an
\* updateContainer(null) leaves the root's memoizedState null, its effect
\* chain holds every previously placed top-level fiber with the Deletion
\* flag, and after commit the container has no children.
\* ------------------------------------------------------------------------
C3_Case(r) ==
    /\ Len(calls) >= 2
    /\ IsUpdateContainer(Len(calls), r, Null)
    /\ calls[Len(calls)].started
    /\ Committed
    /\ fibers[rootsAtCall[r].current].child # 0
    /\ domsAtCall[roots[r].containerInfo].children # <<>>

C3_NullDeletesTopLevelNodes ==
    \A r \in RootIds :
        C3_Case(r) =>
            /\ fibers[roots[r].current].memoizedState = Null
            /\ \A c \in SeqRange(ChildrenOf(fibers, rootsAtCall[r].current)) :
                   \E e \in SeqRange(EffectChain(fibers, roots[r].current)) :
                       /\ e \in {c, fibers[c].alternate}
                       /\ HasFlag(fibers[e].flags, Deletion)
            /\ doms[roots[r].containerInfo].children = <<>>

\* ------------------------------------------------------------------------
\* C4.  When beginWork throws during a build, current of the tree pair is,
\* after the failed call, the root fiber it was before the call.
\* ------------------------------------------------------------------------
BeginWorkErrors ==
    {"Unknown element type", "Unknown work tag", "Resuming work not yet implemented."}

C4_CurrentKeptWhenBeginWorkThrows ==
    thrown \in BeginWorkErrors =>
        \A r \in RootIds : roots[r].current = rootsAtCall[r].current

C4_Witness ==
    /\ thrown \in BeginWorkErrors
    /\ callRoot = 0
    /\ \E r \in RootIds : builds[r] >= 2 /\ roots[r].current # r

\* ------------------------------------------------------------------------
\* C5.  A build aborted by a thrown Error leaves workStatus 'Idle', so every
\* later top-level call starts a build.
\* ------------------------------------------------------------------------
C5_IdleAfterAbortedBuild ==
    /\ thrown # "none" => workStatus = "Idle"
    /\ \A i \in 1..Len(calls) : calls[i].started

\* ------------------------------------------------------------------------
\* C6.  No appendChild or removeChild happens before the traversal of a build
\* has ended: while the work loop runs, and after a visit has thrown, every
\* DOM node that existed when the call began has the children and the parent
\* it had then, and every node created since is detached and childless.
\* ------------------------------------------------------------------------
DomUntouchedSinceCall ==
    \A d \in 1..Len(doms) :
        IF d <= Len(domsAtCall)
        THEN /\ doms[d].children = domsAtCall[d].children
             /\ doms[d].parent = domsAtCall[d].parent
        ELSE /\ doms[d].children = <<>>
             /\ doms[d].parent = 0

C6_NoPartialCommit ==
    ((callRoot # 0 /\ workStatus = "Working") \/ thrown # "none") =>
        DomUntouchedSinceCall

C6_Witness ==
    /\ thrown # "none"
    /\ Len(doms) > Len(domsAtCall)
    /\ \E r \in RootIds : doms[roots[r].containerInfo].children # <<>>

\* ------------------------------------------------------------------------
\* C7.  FIFO fold order: when processUpdateQueue cuts a ring that holds the
\* entries E1..En, enqueued in that order, the memoizedState it writes is the
\* one reached by enqueueing and processing E1 alone, then E2 alone, ... then
\* En alone, from the same base state; and when En is an element replacement
\* that state is its element, when En is a plain object every property of En
\* is in that state.
\* ------------------------------------------------------------------------
RECURSIVE FoldOneByOne(_, _, _, _)
FoldOneByOne(H, fiber, payloads, props) ==
    IF payloads = <<>> THEN H
    ELSE
    LET update == Len(H.updates) + 1
        H1 == enqueueUpdate([H EXCEPT !.updates = Append(@, createUpdate(Head(payloads)))],
                            fiber, update)
    IN  FoldOneByOne(processUpdateQueue(H1, fiber, props), fiber, Tail(payloads), props)

IsElementPayload(payload) == IsObj(payload) /\ Get(payload, "element") # Undefined
IsFunctionPayload(payload) == IsPrim(payload) /\ payload.prim = "function"
IsObjectPayload(payload) ==
    IsObj(payload) /\ ~IsElementPayload(payload)

\* The step cuts the ring of the queue q.
CutsRing(q) == q <= Len(enqLog) /\ enqLog[q] # <<>> /\ enqLog'[q] = <<>>

C7_FifoFoldOrder ==
    [][\A q \in 1..Len(queues) :
          CutsRing(q) =>
              LET fiber == lastProcess'.fiber
                  log == enqLog[q]
                  last == log[Len(log)]
                  state == fibers'[fiber].memoizedState
                  oneByOne == FoldOneByOne([Heap EXCEPT !.queues[q].shared.pending = 0],
                                           fiber, log, lastProcess'.props)
              IN  /\ lastProcess'.log = log
                  /\ state = oneByOne.fibers[fiber].memoizedState
                  /\ IsElementPayload(last) => state = last.element
                  /\ IsObjectPayload(last) =>
                         \A k \in DOMAIN last : k \in DOMAIN state /\ state[k] = last[k]
      ]_vars

\* A ring of three entries of three kinds has been folded, and the result
\* depends on their order.
C7_Witness ==
    /\ lastProcess.fiber # 0
    /\ lastProcess.log = <<[element |-> DivHi], [count |-> Num(5)], Fn("double")>>
    /\ Get(fibers[lastProcess.fiber].memoizedState, "count") = Num(10)
    /\ Get(fibers[lastProcess.fiber].memoizedState, "typeof") = REACT_ELEMENT_TYPE

\* ------------------------------------------------------------------------
\* C8.  Idempotent empty update.  As stated: in every reachable state,
\* processUpdateQueue called on any fiber whose queue is absent or whose
\* pending ring is empty leaves the memoizedState of that fiber unchanged.
\* ------------------------------------------------------------------------
EmptyRing(f) ==
    \/ fibers[f].updateQueue = 0
    \/ queues[fibers[f].updateQueue].shared.pending = 0

ProcessKeepsState(f) ==
    \A props \in QueueProps :
        processUpdateQueue(Heap, f, props).fibers[f].memoizedState
            = fibers[f].memoizedState

C8_EmptyUpdateKeepsStateOfAnyFiber ==
    \A f \in 1..Len(fibers) : EmptyRing(f) => ProcessKeepsState(f)

\* C8, amended.  processUpdateQueue with an absent queue or an empty pending
\* ring leaves memoizedState unchanged for every fiber without a queue, for
\* the fiber the work loop is about to visit (also when it shares its queue
\* with its alternate), and for the current root while workStatus is 'Idle'.
AboutToBeVisited(f) ==
    callRoot # 0 /\ workStatus = "Working" /\ workInProgress # 0 /\ f = workInProgress

C8_EmptyUpdateKeepsStateOfVisitedFiber ==
    \A f \in 1..Len(fibers) :
        ( /\ EmptyRing(f)
          /\ \/ fibers[f].updateQueue = 0
             \/ AboutToBeVisited(f)
             \/ (workStatus = "Idle" /\ \E r \in RootIds : f = roots[r].current) )
        => ProcessKeepsState(f)

\* The work loop is about to visit a recycled root whose queue, shared with
\* its alternate through two builds, has an empty ring and a base state.
C8_Witness ==
    /\ AboutToBeVisited(workInProgress)
    /\ fibers[workInProgress].tag = HostRoot
    /\ fibers[workInProgress].updateQueue # 0
    /\ EmptyRing(workInProgress)
    /\ fibers[fibers[workInProgress].alternate].updateQueue
           = fibers[workInProgress].updateQueue
    /\ builds[callRoot] >= 3
    /\ queues[fibers[workInProgress].updateQueue].baseState # Null

\* ------------------------------------------------------------------------
\* C9.  Pairing symmetry: in every reachable state no fiber is its own
\* alternate and the alternate of the alternate of a fiber is that fiber; and
\* the same holds right after createWorkInProgress on any fiber: it returns
\* another fiber, the two are each other's alternate, and the alternate of
\* every other fiber is what it was.
\* ------------------------------------------------------------------------
PairingSymmetric(F) ==
    \A a \in 1..Len(F) :
        F[a].alternate # 0 =>
            /\ F[a].alternate \in 1..Len(F)
            /\ F[a].alternate # a
            /\ F[F[a].alternate].alternate = a

C9_PairingSymmetry ==
    /\ PairingSymmetric(fibers)
    /\ \A c \in 1..Len(fibers) :
           LET wip == WipOf(Heap, c)
               after == createWorkInProgress(Heap, c, Null).fibers
           IN  /\ wip # c
               /\ after[c].alternate = wip
               /\ after[wip].alternate = c
               /\ \A a \in 1..Len(fibers) :
                      a \notin {c, wip} => after[a].alternate = fibers[a].alternate

\* Both branches have run for a fiber below the root: a child allocated in
\* the second build has been recycled in the third.
C9_Witness ==
    /\ Committed
    /\ \E r \in RootIds : builds[r] >= 3
    /\ \E a \in cloned : fibers[a].tag # HostRoot /\ fibers[a].alternate # 0

\* ------------------------------------------------------------------------
\* C10.  Mount vs. clone exclusivity.  As stated: children are mounted (fresh,
\* flagged Placement) exactly in the first build of a root; every later build
\* creates no fiber by mounting, clones the existing children without the
\* Placement flag and keeps them out of its effect chain.
\* ------------------------------------------------------------------------
ClonedChildrenOf(w) ==
    LET c == fibers[w].alternate
        kids == ChildrenOf(fibers, w)
        old == ChildrenOf(fibers, c)
    IN  /\ Len(kids) = Len(old)
        /\ \A i \in 1..Len(kids) :
               /\ fibers[kids[i]].alternate = old[i]
               /\ kids[i] \in cloned
               /\ kids[i] \notin mounted
               /\ fibers[kids[i]].flags = NoFlags

MountedChildrenOf(w) ==
    \A k \in SeqRange(ChildrenOf(fibers, w)) :
        /\ k \in mounted
        /\ fibers[k].alternate = 0
        /\ HasFlag(fibers[k].flags, Placement)

C10_MountOnlyInFirstBuild ==
    \A r \in RootIds :
        (callRoot = r /\ TraversalDone) =>
            LET tree == TreeOf(fibers, BuiltRoot(r))
                chain == SeqRange(EffectChain(fibers, BuiltRoot(r)))
            IN  IF builds[r] = 1
                THEN \A w \in tree : MountedChildrenOf(w)
                ELSE /\ mounted = {}
                     /\ \A w \in tree :
                            /\ ClonedChildrenOf(w)
                            /\ \A k \in SeqRange(ChildrenOf(fibers, w)) : k \notin chain

\* C10, amended.  In every build the children of a fiber are mounted (fresh,
\* flagged Placement, in the effect chain) exactly when its counterpart of
\* the previous generation is absent or has no child: always in the first
\* build of a root, and in a later build under a fiber that was childless
\* before.  Where the previous generation has children they are cloned one
\* for one, get no Placement flag, and the effect chain holds none of them.
C10_MountIffNoPreviousChildren ==
    \A r \in RootIds :
        (callRoot = r /\ TraversalDone) =>
            LET tree == TreeOf(fibers, BuiltRoot(r))
                chain == SeqRange(EffectChain(fibers, BuiltRoot(r)))
            IN  /\ builds[r] = 1 => \A w \in tree : MountedChildrenOf(w)
                /\ \A w \in tree :
                       IF fibers[w].alternate # 0 /\ fibers[fibers[w].alternate].child # 0
                       THEN /\ ClonedChildrenOf(w)
                            /\ \A k \in SeqRange(ChildrenOf(fibers, w)) : k \notin chain
                       ELSE /\ MountedChildrenOf(w)
                            /\ \A k \in SeqRange(ChildrenOf(fibers, w)) : k \in chain

\* A build after the first has both cloned existing children and mounted new
\* ones.
C10_Witness ==
    /\ TraversalDone
    /\ builds[callRoot] >= 2
    /\ mounted # {}
    /\ \E k \in cloned : fibers[k].tag # HostRoot

\* ------------------------------------------------------------------------
\* Reading the history of a build.
\* ------------------------------------------------------------------------

\* The fibers beginWork (ev = "begin") or completeWork (ev = "complete") was
\* called on in the last build, in the order of the calls.
VisitsOf(ev) ==
    LET sel == SelectSeq(trace, LAMBDA e : e.ev = ev)
    IN  [i \in 1..Len(sel) |-> sel[i].fiber]

\* The fibers of a sequence whose own effect mask is not zero.
Flagged(seq) == SelectSeq(seq, LAMBDA f : fibers[f].flags # NoFlags)

\* The position of the first x in the sequence seq, 0 when there is none.
IndexOf(seq, x) ==
    IF \E i \in 1..Len(seq) : seq[i] = x
    THEN CHOOSE i \in 1..Len(seq) : seq[i] = x /\ \A j \in 1..(i - 1) : seq[j] # x
    ELSE 0

\* The n entries met by following next from the entry update, update first.
RECURSIVE RingWalk(_, _, _)
RingWalk(U, update, n) ==
    IF n = 0 \/ update = 0 THEN <<>>
    ELSE <<update>> \o RingWalk(U, U[update].next, n - 1)

\* The entries of the pending ring of the queue q.
RingOf(q) ==
    LET tail == queues[q].shared.pending
        walk == RingWalk(updates, updates[tail].next, Len(updates))
    IN  IF tail = 0 THEN {} ELSE SeqRange(walk)

\* ------------------------------------------------------------------------
\* C11. Effect chain ordering.
\* ------------------------------------------------------------------------

\* C11 as stated: when the traversal of a build has ended, the effect chain
\* of the finished root holds exactly the visited fibers with a non-zero own
\* effect mask, each once, in the order in which beginWork visited them
\* (pre-order).
C11_ChainInBeginOrder ==
    TraversalDone =>
        EffectChain(fibers, BuiltRoot(callRoot)) = Flagged(VisitsOf("begin"))

\* C11. When the traversal of a build has ended, the effect chain of the
\* finished root holds exactly the visited fibers with a non-zero own effect
\* mask, each once, in the order in which completeWork was called on them:
\* the flagged fibers of a subtree come before its flagged root.
C11_ChainInCompleteOrder ==
    TraversalDone =>
        LET chain == EffectChain(fibers, BuiltRoot(callRoot))
        IN  /\ chain = Flagged(VisitsOf("complete"))
            /\ SeqRange(chain) = {f \in SeqRange(VisitsOf("begin")) :
                                     fibers[f].flags # NoFlags}
            /\ \A i, j \in 1..Len(chain) : chain[i] = chain[j] => i = j

\* A build has ended whose chain holds a fiber and, before it, two of the
\* fibers of its subtree, the fiber having been begun before both.
C11_Witness ==
    /\ TraversalDone
    /\ LET chain == EffectChain(fibers, BuiltRoot(callRoot))
           begun == VisitsOf("begin")
       IN  \E i, j, k \in 1..Len(chain) :
              /\ i < j /\ j < k
              /\ fibers[chain[i]].return = chain[k]
              /\ fibers[chain[j]].return = chain[k]
              /\ IndexOf(begun, chain[k]) < IndexOf(begun, chain[i])

\* ------------------------------------------------------------------------
\* C13. Synchronous completion.
\* ------------------------------------------------------------------------

\* The last top-level call was made while Idle and began a build.
LastCallStarted == Len(calls) > 0 /\ calls[Len(calls)].started

\* The state a call that began a build on root r leaves when it returns
\* without an Error.
ReturnedFrom(r) ==
    LET last == calls[Len(calls)]
        current == roots[r].current
        queue == fibers[current].updateQueue
    IN  /\ workStatus = "Idle"
        /\ workInProgress = 0
        /\ current # rootsAtCall[r].current
        /\ current = fibers[rootsAtCall[r].current].alternate
        /\ VisitsOf("begin")[1] = current
        /\ VisitsOf("complete")[Len(VisitsOf("complete"))] = current
        /\ last.op = "updateContainer" =>
              /\ updates[last.update].payload = [element |-> last.arg]
              /\ last.update \in SeqRange(folded)
              /\ last.update \notin RingOf(queue)
              /\ fibers[current].memoizedState = last.arg

\* C13. A call made while Idle whose build raises no Error does not return
\* before traversal and commit have ended: in the step that ends the call
\* the status is Idle again, the cursor is null, the update the call
\* enqueued has been folded into the state of the root, and current is the
\* root fiber this call built.
C13_SynchronousCompletion ==
    [][(callRoot # 0 /\ callRoot' = 0 /\ thrown' = "none")
          => (LastCallStarted /\ ReturnedFrom(calls[Len(calls)].root))']_vars

\* An updateContainer call that mounted fibers has returned without an Error.
C13_Witness ==
    /\ callRoot = 0 /\ thrown = "none"
    /\ LastCallStarted
    /\ calls[Len(calls)].op = "updateContainer"
    /\ ReturnedFrom(calls[Len(calls)].root)
    /\ mounted # {}

\* ------------------------------------------------------------------------
\* C14. Ring invariant.
\* ------------------------------------------------------------------------

\* The pending ring of the queue q holds the entries enqueued since the
\* queue was last processed and nothing else: pending is the newest, its
\* next is the oldest, and next leads from the oldest through every entry
\* once, in the order of the enqueueUpdate calls (updates are numbered in
\* the order of their creation), back to the oldest.
RingHolds(q) ==
    LET n == Len(enqLog[q])
        tail == queues[q].shared.pending
    IN  IF n = 0 THEN tail = 0
        ELSE /\ tail # 0
             /\ LET head == updates[tail].next
                    walk == RingWalk(updates, head, n)
                IN  /\ Len(walk) = n
                    /\ walk[n] = tail
                    /\ updates[tail].next = walk[1]
                    /\ \A i \in 1..(n - 1) : walk[i] < walk[i + 1]
                    /\ \A i \in 1..n : updates[walk[i]].payload = enqLog[q][i]
                    /\ \A u \in 1..Len(updates) :
                          (u > tail \/ (u >= head /\ u \notin SeqRange(walk)))
                             => updates[u].next \notin SeqRange(walk)

\* C14. After any sequence of enqueueUpdate calls on a queue with no
\* processUpdateQueue between them, the first of which may have created the
\* queue, pending is the entry enqueued last, pending.next is the oldest
\* entry not yet processed, and following next from it visits every
\* unprocessed entry once, in enqueue order, before it returns to the oldest.
C14_RingInvariant ==
    /\ Len(enqLog) = Len(queues)
    /\ \A q \in 1..Len(queues) : RingHolds(q)
    /\ (Len(queues) = 1 /\ Len(enqLog[1]) > 0) =>
          queues[1].shared.pending = Len(updates)

\* Three entries have been enqueued in a row, the first call creating the
\* queue, and none has been processed.
C14_Witness ==
    /\ Len(queues) = 1 /\ Len(enqLog[1]) = 3 /\ Len(updates) = 3
    /\ lastProcess.fiber = 0
    /\ RingWalk(updates, updates[queues[1].shared.pending].next, 4) = <<1, 2, 3, 1>>

\* ------------------------------------------------------------------------
\* C15. At-most-once folding.
\* ------------------------------------------------------------------------

\* C15. processUpdateQueue empties the pending ring of the queue it folds:
\* no entry is folded twice, by the same or by a later build, and the ring of
\* a queue never holds an entry that has been folded, so that an entry
\* enqueued after the cut starts a ring of entries enqueued after the cut.
C15_FoldedAtMostOnce ==
    /\ \A i, j \in 1..Len(folded) : folded[i] = folded[j] => i = j
    /\ \A q \in 1..Len(queues) : RingOf(q) \cap SeqRange(folded) = {}
    /\ \A q \in 1..Len(queues) :
          \A u \in RingOf(q) : updates[u].next \in RingOf(q)

\* Two builds of one root have each folded the entry enqueued by their call,
\* and both have been committed.
C15_Witness ==
    /\ Committed
    /\ folded = <<1, 2>>
    /\ builds[1] = 2
    /\ fibers[roots[1].current].updateQueue =
          fibers[fibers[roots[1].current].alternate].updateQueue

\* ------------------------------------------------------------------------
\* C16. Traversal order.
\* ------------------------------------------------------------------------

\* The position in the history of the build of the call ev on the fiber f.
TracePos(ev, f) == IndexOf(trace, [ev |-> ev, fiber |-> f])

\* No call of the history of the build is repeated.
TraceOnce == \A i, j \in 1..Len(trace) : trace[i] = trace[j] => i = j

\* C16. Within one build beginWork and completeWork are each called once on
\* every fiber of the in-progress tree and on no other fiber; beginWork on a
\* fiber comes before beginWork on its children (hence on all its
\* descendants), completeWork on a fiber comes after completeWork on its
\* children, and completeWork on a fiber comes before beginWork on its next
\* sibling.
C16_TraversalOrder ==
    /\ TraceOnce
    /\ TraversalDone =>
          LET tree == TreeOf(fibers, BuiltRoot(callRoot))
          IN  /\ SeqRange(VisitsOf("begin")) = tree
              /\ SeqRange(VisitsOf("complete")) = tree
              /\ Len(trace) = 2 * Cardinality(tree)
              /\ \A f \in tree :
                    /\ TracePos("begin", f) < TracePos("complete", f)
                    /\ fibers[f].return # 0 =>
                          /\ fibers[f].return \in tree
                          /\ TracePos("begin", fibers[f].return) < TracePos("begin", f)
                          /\ TracePos("complete", f) < TracePos("complete", fibers[f].return)
                    /\ (fibers[f].return # 0 /\ fibers[f].sibling # 0) =>
                          TracePos("complete", f) < TracePos("begin", fibers[f].sibling)

\* The traversal of a build has ended whose tree has a fiber with a child and
\* a next sibling that has a child of its own.
C16_Witness ==
    /\ TraversalDone
    /\ LET tree == TreeOf(fibers, BuiltRoot(callRoot))
       IN  \E f \in tree :
              /\ fibers[f].return # 0
              /\ fibers[f].child # 0
              /\ fibers[f].sibling # 0
              /\ fibers[fibers[f].sibling].child # 0
              /\ TracePos("complete", fibers[f].child) < TracePos("complete", f)
              /\ TracePos("complete", f) < TracePos("begin", fibers[f].sibling)

\* ------------------------------------------------------------------------
\* C18. Child indices.
\* ------------------------------------------------------------------------

\* C18 as stated: when the traversal of a build has ended, the index values
\* of the children of every fiber of the built tree, read along child and
\* sibling, are 0, 1, ..., k - 1.
C18_ChildIndexContiguous ==
    TraversalDone =>
        \A p \in TreeOf(fibers, BuiltRoot(callRoot)) :
           LET children == ChildrenOf(fibers, p)
           IN  \A i \in 1..Len(children) : fibers[children[i]].index = i - 1

\* What the code keeps: the index values of the children of a fiber increase
\* along the sibling chain, each being the position of the fiber's entry in
\* the description list it was mounted from, skipped entries counted.
C18_ChildIndexIncreasing ==
    TraversalDone =>
        \A p \in TreeOf(fibers, BuiltRoot(callRoot)) :
           LET children == ChildrenOf(fibers, p)
           IN  /\ \A i \in 1..Len(children) : fibers[children[i]].index >= i - 1
               /\ \A i \in 1..(Len(children) - 1) :
                     fibers[children[i]].index < fibers[children[i + 1]].index

\* ------------------------------------------------------------------------
\* C19. The phases of the work loop.
\* ------------------------------------------------------------------------

\* The host fibers of the effect chain of the finished root have had their
\* DOM node attached.
EffectsApplied(fw) ==
    \A e \in SeqRange(EffectChain(fibers, fw)) :
       (HasFlag(fibers[e].flags, Placement) /\ DomOf(fibers, e) # 0)
          => doms[DomOf(fibers, e)].parent # 0

\* C19. workStatus only moves from Idle to Working, from Working to
\* Committing and from Committing to Idle.  Committing is entered only when
\* the cursor workInProgress is null.  root.current is assigned only in the
\* step from Committing to Idle, after the loop over the effect chain has
\* reached its end, and in every such step: once in a cycle, the new value
\* being the finished in-progress root, the alternate of the previous
\* current.  It is never assigned while the status is Working.
C19_PhaseOrder ==
    [][/\ workStatus' # workStatus =>
             <<workStatus, workStatus'>> \in
                 {<<"Idle", "Working">>, <<"Working", "Committing">>,
                  <<"Committing", "Idle">>}
       /\ (workStatus # "Committing" /\ workStatus' = "Committing") =>
             /\ workInProgress = 0
             /\ finishedWork' = fibers[roots[callRoot].current].alternate
       /\ roots' # roots =>
             /\ workStatus = "Committing" /\ workStatus' = "Idle"
             /\ effect = 0
             /\ EffectsApplied(finishedWork)
             /\ \A r \in RootIds : r # callRoot => roots'[r] = roots[r]
             /\ roots'[callRoot].current = finishedWork
             /\ finishedWork = fibers[roots[callRoot].current].alternate
             /\ finishedWork # roots[callRoot].current
       /\ (workStatus = "Committing" /\ workStatus' = "Idle") =>
             roots'[callRoot].current # roots[callRoot].current
       /\ workStatus = "Working" => roots' = roots]_vars

\* A second cycle on a root has gone through Working and Committing and is
\* Idle again, current being back on the first fiber of the pair.
C19_Witness ==
    /\ Committed
    /\ builds[1] = 2
    /\ thrown = "none"
    /\ roots[1].current = 1
    /\ rootsAtCall[1].current = fibers[1].alternate
    /\ doms # domsAtCall

\* ------------------------------------------------------------------------
\* C20. The committed tree.
\* ------------------------------------------------------------------------

\* The fibers met from the fiber node along child and sibling, node included
\* and its own siblings left out; fuel bounds the walk.
RECURSIVE ReachFrom(_, _, _)
ReachFrom(F, node, fuel) ==
    IF node = 0 \/ fuel = 0 THEN {}
    ELSE {node} \cup UNION {ReachFrom(F, c, fuel - 1) :
                              c \in SeqRange(SiblingsFrom(F, F[node].child, Len(F)))}

\* The tree under the fiber top is a rooted tree: top has no parent, every
\* other fiber is once in the child chain of one fiber of the tree, which is
\* the fiber its return pointer names.
RootedTree(F, top) ==
    LET tree == ReachFrom(F, top, Len(F))
    IN  /\ F[top].return = 0
        /\ \A p \in tree :
              LET children == ChildrenOf(F, p)
              IN  \A i, j \in 1..Len(children) : children[i] = children[j] => i = j
        /\ \A n \in tree \ {top} :
              /\ F[n].return \in tree
              /\ n \in SeqRange(ChildrenOf(F, F[n].return))
              /\ \A p \in tree : n \in SeqRange(ChildrenOf(F, p)) => p = F[n].return

\* C20. After every completed build and commit the fibers reachable from
\* current along child and sibling form a rooted tree: every fiber but the
\* root is in the child chain of exactly one fiber, its return pointer is
\* that fiber, the root has no parent, and no fiber of the previous
\* generation (the tree under the alternate of current) is reachable.
C20_CommittedTreeConsistent ==
    Committed =>
        \A r \in RootIds :
           LET current == roots[r].current
               previous == fibers[current].alternate
           IN  /\ RootedTree(fibers, current)
               /\ ReachFrom(fibers, current, Len(fibers))
                     \cap ReachFrom(fibers, previous, Len(fibers)) = {}
               /\ \A n \in ReachFrom(fibers, current, Len(fibers)) :
                     fibers[n].alternate \notin
                         ReachFrom(fibers, current, Len(fibers))

\* Two builds of a root have been committed, the second one having cloned
\* fibers of the first and mounted a fiber under one of the clones, and the
\* tree of the first is still in place under the alternate of current.
C20_Witness ==
    /\ Committed
    /\ builds[1] = 2
    /\ thrown = "none"
    /\ \E c \in cloned, n \in mounted :
          /\ fibers[c].return # 0
          /\ fibers[n].return = c
          /\ n \in ReachFrom(fibers, roots[1].current, Len(fibers))
    /\ Cardinality(ReachFrom(fibers, fibers[roots[1].current].alternate,
                             Len(fibers))) > 3

\* ------------------------------------------------------------------------
\* C12. Coalescing.
\* ------------------------------------------------------------------------

\* F and G hold the same fibers, the updateQueue field left aside.
SameButQueues(F, G) ==
    /\ Len(F) = Len(G)
    /\ \A f \in 1..Len(F) : [F[f] EXCEPT !.updateQueue = 0] = [G[f] EXCEPT !.updateQueue = 0]

\* In this step the update created last has become the tail of the pending
\* ring of the fiber, B being the heap in which enqueueUpdate was called.
AppendedTo(B, fiber, payload) ==
    /\ Len(updates') = Len(updates) + 1
    /\ updates'[Len(updates')].payload = payload
    /\ fibers'[fiber].updateQueue # 0
    /\ queues'[fibers'[fiber].updateQueue].shared.pending = Len(updates')
    /\ B.fibers[fiber].updateQueue # 0 =>
          /\ fibers'[fiber].updateQueue = B.fibers[fiber].updateQueue
          /\ LET pending == B.queues[B.fibers[fiber].updateQueue].shared.pending
             IN  IF pending = 0
                 THEN updates'[Len(updates')].next = Len(updates')
                 ELSE /\ updates'[pending].next = Len(updates')
                      /\ updates'[Len(updates')].next = B.updates[pending].next

\* A top-level call made while the status is not Idle.
TopLevelCoalesced ==
    LET call == calls'[Len(calls')]
    IN  /\ ~call.started
        /\ call.op = "updateContainer" =>
              AppendedTo(Heap, roots[call.root].current, [element |-> call.arg])
        /\ SameButQueues(fibers, fibers')
        /\ UNCHANGED <<workStatus, workInProgress, roots, doms, builds, callRoot,
                       finishedWork, effect, trace, folded>>

\* A call made by a component function during the turn of the work loop on
\* workInProgress: the turn ends as it does without the call.
NestedCoalesced ==
    LET call == nested'[Len(nested')]
        R == performUnitOfWork(Heap, workInProgress)
    IN  /\ ~call.started
        /\ AppendedTo(processUpdateQueue(Heap, workInProgress,
                                         fibers[workInProgress].pendingProps),
                      call.fiber, call.payload)
        /\ workInProgress' = R.next
        /\ SameButQueues(R.H.fibers, fibers')
        /\ doms' = R.H.doms
        /\ trace' = R.H.trace
        /\ folded' = R.H.folded
        /\ UNCHANGED <<workStatus, roots, builds, callRoot, finishedWork, effect>>

\* C12. A call of updateContainer made while workStatus is not Idle, from a
\* component function during a build or at top level, appends its update to
\* the pending ring of the fiber it names; no build and no commit begins,
\* and the cursor and the fibers of the build in flight are what they are
\* without the call.
C12_Coalescing ==
    [][/\ (calls' # calls /\ workStatus # "Idle") => TopLevelCoalesced
       /\ nested' # nested => NestedCoalesced]_vars

\* A component function has called updateContainer on the root being built;
\* the build is still in flight and the update waits in the ring of current.
C12_Witness ==
    /\ callRoot # 0 /\ workStatus = "Working" /\ workInProgress # 0
    /\ nested # <<>>
    /\ LET call == nested[Len(nested)]
       IN  /\ call.op = "updateContainer"
           /\ call.fiber = roots[callRoot].current
           /\ call.builds = 2
           /\ queues[fibers[call.fiber].updateQueue].shared.pending = call.update
           /\ call.update \notin SeqRange(folded)

\* ------------------------------------------------------------------------
\* C17. Entries enqueued while a build is in flight.
\* ------------------------------------------------------------------------

\* The traversal of the b-th build of root r has ended without an Error.
BuildEnded(r, b) ==
    \/ builds[r] > b
    \/ /\ builds[r] = b
       /\ (callRoot = r /\ workInProgress = 0) \/ workStatus = "Idle"

\* C17 as stated: an entry enqueued on a fiber by a component function
\* during a build is folded by that build if beginWork had not yet been
\* called on the fiber (or on its alternate) in the build; otherwise it is
\* not folded by that build, stays in the pending ring of its queue, and is
\* folded by the next build of the root.
C17_LateEntryFoldedNowOrNext ==
    \A i \in 1..Len(nested) :
       LET call == nested[i]
       IN  /\ (~call.begun /\ BuildEnded(call.root, call.builds)) =>
                 call.update \in SeqRange(folded)
           /\ (call.begun /\ builds[call.root] = call.builds) =>
                 /\ call.update \notin SeqRange(folded)
                 /\ call.update \in RingOf(call.queue)
           /\ (call.begun /\ BuildEnded(call.root, call.builds + 1)) =>
                 call.update \in SeqRange(folded)

\* ------------------------------------------------------------------------
\* C21. Recycling.
\* ------------------------------------------------------------------------

\* The fibers createWorkInProgress has returned in this step.
NewWips == cloned' \ (IF builds' # builds THEN {} ELSE cloned)

\* The root fibers of the tree pair r.
RootFibersOf(r) ==
    {f \in 1..Len(fibers) : fibers[f].tag = HostRoot /\ fibers[f].stateNode = [root |-> r]}

\* Each fiber has at most one counterpart, and current is one of the two
\* root fibers of its pair.
TwoFibersAPosition ==
    /\ \A f \in 1..Len(fibers) :
          fibers[f].alternate # 0 =>
             /\ fibers[f].alternate # f
             /\ fibers[fibers[f].alternate].alternate = f
    /\ \A r \in RootIds :
          /\ roots[r].current \in {r, fibers[r].alternate}
          /\ RootFibersOf(r) = {r, fibers[r].alternate} \ {0}

\* C21. createWorkInProgress allocates a fiber only when the fiber it is
\* given has no alternate, and otherwise returns the alternate, with flags,
\* subtreeFlags, firstEffect, lastEffect and nextEffect cleared; every fiber
\* allocated in a build is either such a counterpart or mounted.  No third
\* fiber is ever made for a position, and from the first build on current
\* goes back and forth between the two root fibers of the pair.
C21_Recycling ==
    /\ []TwoFibersAPosition
    /\ [][/\ \A w \in NewWips :
                LET c == fibers'[w].alternate
                IN  /\ c \in 1..Len(fibers)
                    /\ fibers'[c].alternate = w
                    /\ IF fibers[c].alternate = 0
                       THEN w > Len(fibers)
                       ELSE w = fibers[c].alternate
                    /\ fibers'[w].flags = NoFlags
                    /\ fibers'[w].subtreeFlags = NoFlags
                    /\ fibers'[w].firstEffect = 0
                    /\ fibers'[w].lastEffect = 0
                    /\ fibers'[w].nextEffect = 0
          /\ \A n \in (Len(fibers) + 1)..Len(fibers') :
                \/ n \in mounted'
                \/ n \in NewWips /\ fibers[fibers'[n].alternate].alternate = 0
          /\ \A r \in RootIds :
                roots'[r].current # roots[r].current =>
                   /\ roots'[r].current \in {r, fibers[r].alternate}
                   /\ roots[r].current \in {r, fibers[r].alternate}]_vars

\* A third build of a root has begun on the fiber that was the root of the
\* first tree, its effect chain of the first build cleared, and a fiber two
\* generations old has been reused below the root.
C21_Witness ==
    /\ builds[1] = 3
    /\ callRoot = 1
    /\ fibers[roots[1].current].alternate \in cloned
    /\ \E w \in cloned :
          /\ fibers[w].return # 0
          /\ w < fibers[w].alternate
          /\ fibers[w].flags = NoFlags
          /\ fibers[fibers[w].alternate].firstEffect # 0

\* ------------------------------------------------------------------------
\* C22. 'Resuming work not yet implemented.' is never thrown.
\* ------------------------------------------------------------------------

\* beginWork of workInProgress will reach cloneChildFibers: the fiber is of
\* a tag whose update function has a clone branch, and its current fiber
\* has a child.
WillCloneChildren(w) ==
    /\ fibers[w].tag \in {HostRoot, HostComponent, FunctionComponent, ClassComponent}
    /\ fibers[w].alternate # 0
    /\ fibers[fibers[w].alternate].child # 0

\* C22. Whenever beginWork is about to reach cloneChildFibers for the fiber
\* the work loop stands on, the child pointer of that fiber equals the child
\* pointer of its current fiber, and no call ever ends with the Error
\* 'Resuming work not yet implemented.'; this holds as well when components
\* call updateContainer or enqueue updates while they render.
C22_NeverResuming ==
    /\ thrown # "Resuming work not yet implemented."
    /\ (workStatus = "Working" /\ workInProgress # 0 /\ thrown = "none"
          /\ WillCloneChildren(workInProgress)) =>
       fibers[workInProgress].child = fibers[fibers[workInProgress].alternate].child

\* The work loop stands on a fiber, not a root, whose children it will clone,
\* after having cloned the children of the parent of that fiber.
C22_Witness ==
    /\ workStatus = "Working" /\ workInProgress # 0 /\ thrown = "none"
    /\ WillCloneChildren(workInProgress)
    /\ workInProgress \in cloned
    /\ fibers[workInProgress].return \in cloned
    /\ fibers[workInProgress].child = fibers[fibers[workInProgress].alternate].child

\* ------------------------------------------------------------------------
\* C23. Mounted fibers: stateNode and Placement.
\* ------------------------------------------------------------------------

\* C23. A fiber mounted by a build has stateNode null for as long as the
\* work loop of that build runs, and once the commit of the build has ended
\* it no longer carries the Placement flag.
C23_PlacementUntilCommit ==
    /\ (callRoot # 0 /\ workStatus = "Working") =>
          \A f \in mounted : IsNullish(fibers[f].stateNode)
    /\ (Committed /\ thrown = "none") =>
          \A f \in mounted : ~HasFlag(fibers[f].flags, Placement)

\* ------------------------------------------------------------------------
\* C24. Double buffering.
\* ------------------------------------------------------------------------

\* The fields of a fiber that a build leaves alone in the current tree.
StructureOf(fiber) ==
    <<fiber.return, fiber.child, fiber.sibling, fiber.index, fiber.pendingProps,
      fiber.flags, fiber.firstEffect, fiber.lastEffect, fiber.nextEffect>>

\* The fibers reachable from the current root fiber of some tree pair.
CurrentFibers == UNION {TreeOf(fibers, roots[r].current) : r \in RootIds}

\* C24. No step of a build changes return, child, sibling, index,
\* pendingProps, flags, firstEffect, lastEffect or nextEffect of a fiber
\* reachable from root.current, and the fibers of the build are never
\* reachable from root.current before commit assigns it.  A fiber that is not
\* a fiber of the build is written in one way only, alternate going from null
\* to the fiber created for it (and, before the build starts, updateQueue of
\* the root fiber that updateContainer enqueues on, when it had no queue); an
\* update queue that is written is the queue that a fiber and its alternate
\* share.
C24_DoubleBuffering ==
    [][/\ \A f \in CurrentFibers : StructureOf(fibers'[f]) = StructureOf(fibers[f])
       /\ callRoot' # 0 =>
             TreeOf(fibers', roots'[callRoot'].current) \cap (cloned' \cup mounted') = {}
       /\ \A f \in 1..Len(fibers) :
             (fibers'[f] # fibers[f] /\ f \notin cloned' \cup mounted') =>
                /\ fibers'[f] = [fibers[f] EXCEPT !.alternate = fibers'[f].alternate,
                                                  !.updateQueue = fibers'[f].updateQueue]
                /\ fibers'[f].alternate # fibers[f].alternate =>
                      fibers[f].alternate = 0 /\ fibers'[f].alternate \in cloned'
                /\ fibers'[f].updateQueue # fibers[f].updateQueue =>
                      /\ Len(calls') > Len(calls)
                      /\ f = roots[calls'[Len(calls')].root].current
                      /\ fibers[f].updateQueue = 0
                      /\ fibers'[f].updateQueue > Len(queues)
       /\ \A q \in 1..Len(queues) :
             queues'[q] # queues[q] =>
                \E f \in 1..Len(fibers') :
                   /\ fibers'[f].updateQueue = q
                   /\ (callRoot' # 0 \/ callRoot # 0) =>
                         /\ fibers'[f].alternate # 0
                         /\ fibers'[fibers'[f].alternate].updateQueue = q]_vars

\* The traversal of a second build has ended: it has created alternates for
\* fibers of the current tree, cloned and mounted fibers, and the current
\* tree still has the effect chain of the first commit.
C24_Witness ==
    /\ TraversalDone /\ thrown = "none"
    /\ builds[callRoot] = 2
    /\ mounted # {}
    /\ \E f \in TreeOf(fibers, roots[callRoot].current) :
          /\ fibers[f].return # 0
          /\ fibers[f].alternate \in cloned
          /\ fibers[f].flags # NoFlags
    /\ fibers[roots[callRoot].current].firstEffect # 0
    /\ TreeOf(fibers, roots[callRoot].current) \cap (cloned \cup mounted) = {}

\* ------------------------------------------------------------------------
\* C25. The committed effect chain.
\* ------------------------------------------------------------------------

\* C25. The effect chain commitRoot starts to walk holds only fibers mounted
\* by the build it commits, each of them once, so the walk ends; every fiber
\* commitAllEffects visits is such a fiber, and a DOM node that a visit
\* appends to a parent had no parent before: with no removal in between, no
\* DOM node is appended twice.
C25_ChainOfMounted ==
    [][/\ (workStatus = "Working" /\ workStatus' = "Committing") =>
             LET chain == ChainFrom(fibers, effect', Len(fibers))
             IN  /\ SeqRange(chain) \subseteq mounted
                 /\ Len(chain) = Cardinality(SeqRange(chain))
                 /\ chain # <<>> => fibers[chain[Len(chain)]].nextEffect = 0
       /\ (workStatus = "Committing" /\ effect # 0) =>
             /\ effect \in mounted
             /\ doms' # doms =>
                   /\ doms[DomOf(fibers, effect)].parent = 0
                   /\ doms'[DomOf(fibers, effect)].parent # 0
       /\ \A d \in 1..Len(doms) :
             doms[d].parent # 0 => doms'[d].parent = doms[d].parent]_vars

\* The commit of a second build walks a chain of fibers mounted by that
\* build, below fibers cloned from the first tree whose DOM nodes are
\* attached already, and has appended the DOM node of the first of them.
C25_Witness ==
    /\ workStatus = "Committing"
    /\ builds[callRoot] = 2
    /\ fibers[finishedWork].firstEffect # 0
    /\ effect # 0
    /\ effect # fibers[finishedWork].firstEffect
    /\ doms[DomOf(fibers, fibers[finishedWork].firstEffect)].parent # 0
    /\ \E c \in cloned : DomOf(fibers, c) # 0 /\ doms[DomOf(fibers, c)].parent # 0

\* ------------------------------------------------------------------------
\* C26. The DOM tree after a commit.
\* ------------------------------------------------------------------------

\* The DOM nodes of the nearest host fibers below the fibers of a sibling
\* list, in the order of the description: a host fiber stands for its own DOM
\* node, a component fiber for those of its children.
RECURSIVE HostNodesOf(_, _, _)
HostNodesOf(F, kids, fuel) ==
    IF kids = <<>> \/ fuel = 0 THEN <<>>
    ELSE LET f == Head(kids)
             own == IF F[f].tag \in {HostComponent, HostText}
                    THEN (IF DomOf(F, f) = 0 THEN <<>> ELSE <<DomOf(F, f)>>)
                    ELSE HostNodesOf(F, ChildrenOf(F, f), fuel - 1)
         IN  own \o HostNodesOf(F, Tail(kids), fuel)

\* In the tree under the root fiber top, every host fiber with a DOM node is
\* attached to the DOM node getHostParentDom finds, and the child list of
\* every DOM parent is the list of its host fibers in description order.
DomMirrors(F, D, rootRecs, top) ==
    /\ \A f \in TreeOf(F, top) :
          (F[f].tag \in {HostComponent, HostText} /\ DomOf(F, f) # 0) =>
             D[DomOf(F, f)].parent = getHostParentDom(F, rootRecs, f)
    /\ \A f \in TreeOf(F, top) :
          (F[f].tag = HostComponent /\ DomOf(F, f) # 0) =>
             D[DomOf(F, f)].children = HostNodesOf(F, ChildrenOf(F, f), Len(F))
    /\ D[rootRecs[F[top].stateNode.root].containerInfo].children =
          HostNodesOf(F, ChildrenOf(F, top), Len(F))

\* C26. When a commit that placed fibers ends, every host fiber of the
\* committed tree that has a DOM node is a child of the DOM node of its
\* nearest host ancestor, or of the container, and the children of each of
\* these DOM nodes are in the order of the description.
C26_DomInDocumentOrder ==
    [][(workStatus = "Committing" /\ workStatus' = "Idle" /\ mounted # {}) =>
          DomMirrors(fibers', doms', roots', roots'[callRoot].current)]_vars

\* ------------------------------------------------------------------------
\* C27. A fiber and its alternate; the way up to the root.
\* ------------------------------------------------------------------------

\* In the heap (F, rootRecs): a fiber and its alternate agree on tag, key,
\* type and stateNode, the root fibers of pair r hold r as stateNode, and
\* markUpdateLaneFromFiberToRoot takes every fiber of the committed tree of r
\* to r.
PairsAgree(F, rootRecs, r) ==
    /\ \A f \in 1..Len(F) :
          F[f].alternate # 0 =>
             /\ F[f].tag = F[F[f].alternate].tag
             /\ F[f].key = F[F[f].alternate].key
             /\ F[f].type = F[F[f].alternate].type
             /\ F[f].stateNode = F[F[f].alternate].stateNode
    /\ F[rootRecs[r].current].tag = HostRoot
    /\ F[rootRecs[r].current].stateNode = [root |-> r]
    /\ F[rootRecs[r].current].alternate # 0
    /\ F[F[rootRecs[r].current].alternate].stateNode = [root |-> r]
    /\ \A f \in TreeOf(F, rootRecs[r].current) :
          markUpdateLaneFromFiberToRoot(F, f) = r

\* C27. When a build and its commit have ended, every fiber agrees with its
\* alternate on tag, key, type and stateNode, both root fibers of the pair
\* hold the FiberRoot as stateNode, and from every fiber of the committed
\* tree the walk along return ends at a HostRoot fiber whose stateNode is
\* that FiberRoot: scheduleUpdateOnFiber never returns at root === null.
C27_PairsAgree ==
    [][(callRoot # 0 /\ callRoot' = 0 /\ thrown' = "none") =>
          PairsAgree(fibers', roots', callRoot)]_vars

\* A second commit has ended; a host fiber of the committed tree, three
\* levels down, shares its DOM node with its alternate, and the walk from it
\* ends at the FiberRoot.
C27_Witness ==
    /\ Committed /\ thrown = "none"
    /\ builds[1] >= 2
    /\ \E f \in TreeOf(fibers, roots[1].current) :
          /\ fibers[f].return # 0
          /\ fibers[fibers[f].return].return # 0
          /\ fibers[f].alternate # 0
          /\ DomOf(fibers, f) # 0
          /\ fibers[fibers[f].alternate].stateNode = fibers[f].stateNode
          /\ markUpdateLaneFromFiberToRoot(fibers, f) = 1

\* ------------------------------------------------------------------------
\* C28. One workStatus and one workInProgress for all tree pairs.
\* ------------------------------------------------------------------------

\* The tree pair of the root fiber a nested updateContainer enqueued on.
TargetOf(entry) == fibers[entry.fiber].stateNode.root

\* The DOM nodes of D in the container of the pair r, the container included.
DomsUnder(D, r) == {d \in 1..Len(D) : DomContains(D, roots[r].containerInfo, d)}

\* C28. A call updateContainer(element, B) made by a component while a build
\* of another pair A is in flight puts its update on the queue of B's root
\* fiber and starts no build of B: workStatus stays 'Working' for A, the work
\* loop goes on to the fiber it would have gone on to without the call, and
\* no fiber of B's tree, B.current or B's container changes.  When A's work
\* ends, the current pointer and the container of every other pair are as
\* they were when A's call was made.  The update is folded only in a build
\* of B begun by a later top-level updateContainer on B that found
\* workStatus 'Idle'; the same holds of the update of a top-level
\* updateContainer that found workStatus 'Working'.
C28_SharedWorkStatus ==
    /\ [](\A i \in 1..Len(nested) :
            (nested[i].op = "updateContainer" /\ TargetOf(nested[i]) # nested[i].root
               /\ nested[i].update \in SeqRange(folded)) =>
              \E j \in 1..Len(calls) :
                 /\ calls[j].op = "updateContainer"
                 /\ calls[j].root = TargetOf(nested[i])
                 /\ calls[j].started
                 /\ calls[j].update > nested[i].update)
    /\ [](\A i \in 1..Len(calls) :
            (calls[i].op = "updateContainer" /\ ~calls[i].started
               /\ calls[i].update \in SeqRange(folded)) =>
              \E j \in (i + 1)..Len(calls) :
                 /\ calls[j].op = "updateContainer"
                 /\ calls[j].root = calls[i].root
                 /\ calls[j].started)
    /\ [][/\ (nested' # nested /\ nested'[Len(nested')].op = "updateContainer"
                   /\ fibers[nested'[Len(nested')].fiber].stateNode.root # callRoot) =>
                LET e == nested'[Len(nested')]
                    B == fibers[e.fiber].stateNode.root
                IN  /\ e.fiber = roots[B].current
                    /\ ~e.started
                    /\ builds' = builds
                    /\ roots' = roots
                    /\ workStatus' = "Working"
                    /\ thrown' = "none" => callRoot' = callRoot
                    /\ workInProgress' =
                          performUnitOfWork([Heap EXCEPT !.reenter = NoReentry],
                                            workInProgress).next
                    /\ fibers'[e.fiber].updateQueue = e.queue
                    /\ queues'[e.queue].shared.pending = e.update
                    /\ updates'[e.update].payload = e.payload
                    /\ \A f \in TreeOf(fibers, roots[B].current)
                                 \cup TreeOf(fibers, fibers[roots[B].current].alternate) :
                          fibers'[f] = [fibers[f] EXCEPT !.updateQueue = fibers'[f].updateQueue]
                    /\ Len(fibers') = Len(fibers)
                          + Cardinality(mounted' \ mounted) + Cardinality(cloned' \ cloned)
                    /\ \A d \in DomsUnder(doms, B) : doms'[d] = doms[d]
          /\ (callRoot # 0 /\ callRoot' = 0) =>
                \A B \in PairIds \ {callRoot} :
                   /\ roots'[B].current = rootsAtCall[B].current
                   /\ \A d \in DomsUnder(domsAtCall, B) : doms'[d] = domsAtCall[d]
                   /\ builds'[B] = builds[B]]_vars

\* A component rendered in a build of pair 1 has called updateContainer on
\* pair 2; the build of pair 1 has been committed with pair 2 untouched, and
\* a later top-level updateContainer on pair 2 has folded the update of the
\* nested call and committed.
C28_Witness ==
    /\ Committed /\ thrown = "none"
    /\ \E i \in 1..Len(nested) :
          /\ nested[i].op = "updateContainer"
          /\ nested[i].root = 1
          /\ TargetOf(nested[i]) = 2
          /\ nested[i].update \in SeqRange(folded)
    /\ builds = <<1, 1>>
    /\ roots[1].current # 1
    /\ roots[2].current # 2
    /\ doms[roots[2].containerInfo].children # <<>>

\* ------------------------------------------------------------------------
\* C29. Termination.
\* ------------------------------------------------------------------------

\* beginWork has been called on the fiber in the build in flight.
Begun(T, fiber) == \E i \in 1..Len(T) : T[i] = [ev |-> "begin", fiber |-> fiber]

\* C29. Every build runs to its end.  The fiber a turn of workLoopSync
\* stands on has not been begun before in the build and is no fiber of the
\* current tree, and neither is the fiber the turn moves on to.  While the
\* work loop runs it reaches workInProgress === null, unless an Error is
\* thrown; a commit under way reaches workStatus 'Idle', its walk of the
\* effect chain having ended; every call returns, with workStatus 'Idle'
\* when nothing was thrown.
C29_Termination ==
    /\ [][WorkLoopRuns =>
             /\ ~Begun(trace, workInProgress)
             /\ workInProgress \notin TreeOf(fibers, roots[callRoot].current)
             /\ (workInProgress' # 0 /\ thrown' = "none") =>
                   /\ ~Begun(trace', workInProgress')
                   /\ workInProgress' \notin TreeOf(fibers', roots'[callRoot].current)]_vars
    /\ WorkLoopRuns ~> (workInProgress = 0 \/ thrown # "none")
    /\ (workStatus = "Committing") ~> (workStatus = "Idle" /\ effect = 0)
    /\ (callRoot # 0) ~> (callRoot = 0 /\ (workStatus = "Idle" \/ thrown # "none"))

\* A second or third build, of a tree partly cloned and partly mounted, has
\* ended without an Error after ten calls of beginWork and completeWork, its
\* effect chain has been walked and workStatus is 'Idle' again.
C29_Witness ==
    /\ Committed /\ thrown = "none"
    /\ builds[1] >= 2
    /\ Len(trace) >= 10
    /\ mounted # {} /\ cloned # {}
    /\ fibers[roots[1].current].firstEffect # 0
    /\ effect = 0 /\ workInProgress = 0

============================================================================
